---- MODULE Spec2Model ----
(***************************************************************************)
(* Thumbnail image resolution of the article generator                     *)
(* (GenerateArticles/__init__.py): query variant generation, the provider  *)
(* cascade (Google Custom Search, then Unsplash), URL validation, and the  *)
(* static catalog with hourly hash rotation; and the three functions that  *)
(* work on the storage container: the run of GenerateArticles.main over    *)
(* the feed entries, ClearArticles.main and GetArticles.main.              *)
(*                                                                         *)
(* Python strings are TLA+ strings; substring, strip, lower and replace    *)
(* are computed character by character with SubSeq.                        *)
(***************************************************************************)
EXTENDS Integers, Sequences, FiniteSets, TLC

VARIABLES
    query,        \* search_query handed to the function under way
    pc,           \* position of the call under way
    variants,     \* search_variants (list of strings)
    vi,           \* index of the variant the cascade is at (1-based)
    result,       \* value returned by the call (Option)
    source,       \* which tier produced result: "none", "google", "unsplash", "default"
    raised,       \* TRUE when an exception left the call
    calls,        \* provider calls of the resolution under way, in order
    validated,    \* [url, head] for which validate_image_url returned True
    catKey,       \* category_key handed to rotate_image_selection ("" if not reached)
    googleOn,     \* GOOGLE_API_KEY and GOOGLE_SEARCH_ENGINE_ID are both set
    unsplashOn,   \* UNSPLASH_ACCESS_KEY is set
    hour,         \* int(time.time() // 3600)
    hashSeed,     \* per-process seed of the built-in hash() of strings
    seen,         \* an earlier fallback selection kept for comparison (at most one)
    pool,         \* images handed to rotate_image_selection
    cand,         \* candidate handed to calculate_image_relevance_score
    points,       \* score returned for cand.url
    altPoints,    \* score returned for cand.alt, the same candidate on another host
    last,         \* the latest provider call: provider, kind of answer, truthy return
    stub,         \* answers the stubbed providers have given, in call order
    run,          \* 1 during the first resolution, 2 during the repeated one
    container,    \* the blobs of the storage container: name -> content
    ops,          \* storage operations of the function run under way, in order
    locals        \* local variables of the main() under way

vars == << query, pc, variants, vi, result, source, raised, calls, validated,
           catKey, googleOn, unsplashOn, hour, hashSeed, seen, pool, cand,
           points, altPoints, last, stub, run, container, ops, locals >>

----------------------------------------------------------------------------
(* Bounds of the model *)

MaxWords == 2       \* words per base query
MaxSeed  == 1       \* hash seeds 0..MaxSeed
MaxHour  == 1       \* hour buckets 0..MaxHour
MaxItems == 2       \* candidates in one Google response

MaxEntries == 2     \* feed entries handed to one run of GenerateArticles.main
MaxMinute == 1      \* minutes 0..MaxMinute on the clock of a run

----------------------------------------------------------------------------
(* Python values *)

NoneV   == [isNone |-> TRUE,  v |-> ""]
Some(u) == [isNone |-> FALSE, v |-> u]
\* truthiness of an optional string: `if image_url:`
Truthy(x) == ~x.isNone /\ x.v # ""

\* `t in s` for strings
Contains(s, t) ==
    \E i \in 1..(Len(s) - Len(t) + 1) : SubSeq(s, i, i + Len(t) - 1) = t

\* any(term in s for term in terms)
AnyIn(terms, s) == \E i \in 1..Len(terms) : Contains(s, terms[i])

Whitespace == {" ", "\t", "\n", "\r", "\f"}

\* str.strip()
Strip(s) ==
    LET keep == {i \in 1..Len(s) : SubSeq(s, i, i) \notin Whitespace}
    IN  IF keep = {} THEN ""
        ELSE SubSeq(s, CHOOSE i \in keep : \A j \in keep : i <= j,
                       CHOOSE i \in keep : \A j \in keep : i >= j)

UpperAlpha == "ABCDEFGHIJKLMNOPQRSTUVWXYZ"
LowerAlpha == "abcdefghijklmnopqrstuvwxyz"

LowerChar(c) ==
    IF \E i \in 1..Len(UpperAlpha) : SubSeq(UpperAlpha, i, i) = c
    THEN LET i == CHOOSE i \in 1..Len(UpperAlpha) : SubSeq(UpperAlpha, i, i) = c
         IN  SubSeq(LowerAlpha, i, i)
    ELSE c

\* str.lower()
RECURSIVE Lower(_)
Lower(s) ==
    IF s = "" THEN ""
    ELSE LowerChar(SubSeq(s, 1, 1)) \o Lower(SubSeq(s, 2, Len(s)))

\* s.endswith(t)
EndsWith(s, t) == Len(t) <= Len(s) /\ SubSeq(s, Len(s) - Len(t) + 1, Len(s)) = t

\* str.replace(old, new): leftmost non-overlapping occurrences, old non-empty
RECURSIVE Replace(_, _, _)
Replace(s, old, new) ==
    IF Len(s) < Len(old) THEN s
    ELSE IF SubSeq(s, 1, Len(old)) = old
         THEN new \o Replace(SubSeq(s, Len(old) + 1, Len(s)), old, new)
         ELSE SubSeq(s, 1, 1) \o Replace(SubSeq(s, 2, Len(s)), old, new)

\* str(n) for a natural number
RECURSIVE ToStr(_)
ToStr(n) ==
    IF n < 10 THEN SubSeq("0123456789", n + 1, n + 1)
    ELSE ToStr(n \div 10) \o SubSeq("0123456789", (n % 10) + 1, (n % 10) + 1)

\* " ".join(ws)
RECURSIVE Join(_)
Join(ws) ==
    IF Len(ws) = 0 THEN ""
    ELSE IF Len(ws) = 1 THEN ws[1]
    ELSE ws[1] \o " " \o Join(Tail(ws))

----------------------------------------------------------------------------
(* Inputs: base queries are up to MaxWords words joined by single spaces.  *)
(* The empty word gives the empty query and leading, trailing and doubled  *)
(* spaces.                                                                 *)

Vocabulary ==
    { "", "tesla", "jaguar", "land rover", "apple", "iphone", "logo",
      "hack", "cybersecurity", "Tesla" }

BaseQueries ==
    { Join(ws) : ws \in UNION { [1..n -> Vocabulary] : n \in 1..MaxWords } }

\* the base queries the provider cascade is run on
CascadeVocabulary == { "", "jaguar", "land rover", "logo", "hack", "Tesla" }

CascadeQueries ==
    { Join(ws) : ws \in UNION { [1..n -> CascadeVocabulary] : n \in 1..MaxWords } }

----------------------------------------------------------------------------
(* generate_search_variants *)

MajorBrands == << "apple", "microsoft", "google", "tesla", "jaguar", "ford",
                  "bmw", "mercedes" >>
Automotive  == << "jaguar", "land rover", "tesla", "ford", "bmw", "mercedes",
                  "toyota", "honda" >>
ConsumerTech == << "iphone", "android", "windows", "chrome", "firefox" >>

VariantLimit == 4

\* RawVariants without the automotive rule
RawVariants_noautomotive(original_query) ==
    << original_query >>
    \o (IF AnyIn(MajorBrands, original_query)
        THEN (IF ~Contains(original_query, "logo")
              THEN << original_query \o " logo" >> ELSE << >>)
             \o << original_query \o " brand" >>
        ELSE << >>)
    \o (IF AnyIn(ConsumerTech, original_query)
        THEN << original_query \o " device",
                original_query \o " technology" >>
        ELSE << >>)

\* the list built by the three rules, before stripping and deduplication
RawVariants(original_query) ==
    << original_query >>
    \o (IF AnyIn(MajorBrands, original_query)
        THEN (IF ~Contains(original_query, "logo")
              THEN << original_query \o " logo" >> ELSE << >>)
             \o << original_query \o " brand" >>
        ELSE << >>)
    \o (IF AnyIn(Automotive, original_query)
        THEN << original_query \o " car",
                original_query \o " automotive",
                Replace(original_query, "land rover", "landrover") \o " logo" >>
        ELSE << >>)
    \o (IF AnyIn(ConsumerTech, original_query)
        THEN << original_query \o " device",
                original_query \o " technology" >>
        ELSE << >>)

\* [v.strip() for v in vs if v.strip()]
RECURSIVE StripNonEmpty(_)
StripNonEmpty(vs) ==
    IF vs = << >> THEN << >>
    ELSE LET s == Strip(Head(vs))
         IN  (IF s # "" THEN << s >> ELSE << >>) \o StripNonEmpty(Tail(vs))

\* list(dict.fromkeys(vs)): first occurrences, order kept
RECURSIVE dict_fromkeys(_)
dict_fromkeys(vs) ==
    IF vs = << >> THEN << >>
    ELSE LET r == dict_fromkeys(SubSeq(vs, 1, Len(vs) - 1))
             l == vs[Len(vs)]
         IN  IF \E i \in 1..Len(r) : r[i] = l THEN r ELSE Append(r, l)

\* vs[:n]
Take(vs, n) == SubSeq(vs, 1, IF Len(vs) < n THEN Len(vs) ELSE n)

\* [v for v in vs if v.strip()]: empty variants dropped, nothing stripped
RECURSIVE NonEmptyOnly(_)
NonEmptyOnly(vs) ==
    IF vs = << >> THEN << >>
    ELSE (IF Strip(Head(vs)) # "" THEN << Head(vs) >> ELSE << >>) \o NonEmptyOnly(Tail(vs))

\* [v.strip() for v in vs]: stripped, empty variants kept
StripAll(vs) == [i \in 1..Len(vs) |-> Strip(vs[i])]

\* generate_search_variants without the cut to VariantLimit entries
generate_search_variants_nolimit(original_query) ==
    dict_fromkeys(StripNonEmpty(RawVariants(original_query)))

\* generate_search_variants without v.strip() on the variants it keeps
generate_search_variants_nostrip(original_query) ==
    Take(dict_fromkeys(NonEmptyOnly(RawVariants(original_query))), VariantLimit)

\* generate_search_variants without the filter on empty variants
generate_search_variants_keepempty(original_query) ==
    Take(dict_fromkeys(StripAll(RawVariants(original_query))), VariantLimit)

generate_search_variants(original_query) ==
    Take(dict_fromkeys(StripNonEmpty(RawVariants(original_query))), VariantLimit)

----------------------------------------------------------------------------
(* Static catalog: default_images and fallback_images of                   *)
(* get_default_security_image, in dictionary order                         *)

default_images ==
  <<
    [term |-> "jaguar", images |-> <<
        "https://upload.wikimedia.org/wikipedia/en/thumb/e/e9/Jaguar_Cars_logo.svg/1200px-Jaguar_Cars_logo.svg.png",
        "https://images.unsplash.com/photo-1544636331-e26879cd4d9b?w=800",
        "https://images.unsplash.com/photo-1503376780353-7e6692767b70?w=800" >>],
    [term |-> "land rover", images |-> <<
        "https://upload.wikimedia.org/wikipedia/commons/thumb/6/66/Land_Rover_logo.svg/1200px-Land_Rover_logo.svg.png",
        "https://images.unsplash.com/photo-1549317661-bd32c8ce0db2?w=800",
        "https://images.unsplash.com/photo-1533473359331-0135ef1b58bf?w=800" >>],
    [term |-> "tesla", images |-> <<
        "https://upload.wikimedia.org/wikipedia/commons/thumb/b/bd/Tesla_Motors.svg/1200px-Tesla_Motors.svg.png",
        "https://images.unsplash.com/photo-1560958089-b8a1929cea89?w=800",
        "https://images.unsplash.com/photo-1571019613454-1cb2f99b2d8b?w=800",
        "https://images.unsplash.com/photo-1593941707882-a5bac6861d75?w=800" >>],
    [term |-> "ford", images |-> <<
        "https://upload.wikimedia.org/wikipedia/commons/thumb/3/3e/Ford_logo_flat.svg/1200px-Ford_logo_flat.svg.png",
        "https://images.unsplash.com/photo-1583121274602-3e2820c69888?w=800",
        "https://images.unsplash.com/photo-1552519507-da3b142c6e3d?w=800" >>],
    [term |-> "bmw", images |-> <<
        "https://upload.wikimedia.org/wikipedia/commons/thumb/4/44/BMW.svg/1200px-BMW.svg.png",
        "https://images.unsplash.com/photo-1555215695-3004980ad54e?w=800",
        "https://images.unsplash.com/photo-1506905925346-21bda4d32df4?w=800" >>],
    [term |-> "mercedes", images |-> <<
        "https://upload.wikimedia.org/wikipedia/commons/thumb/9/90/Mercedes-Logo.svg/1200px-Mercedes-Logo.svg.png",
        "https://images.unsplash.com/photo-1558618047-3c8c76ca7d13?w=800",
        "https://images.unsplash.com/photo-1606664515524-ed2f786a0bd6?w=800" >>],
    [term |-> "toyota", images |-> <<
        "https://upload.wikimedia.org/wikipedia/commons/thumb/c/ca/Toyota-Logo.svg/1200px-Toyota-Logo.svg.png",
        "https://images.unsplash.com/photo-1621135802920-133df287f89c?w=800",
        "https://images.unsplash.com/photo-1563013544-824ae1b704d3?w=800" >>],
    [term |-> "volkswagen", images |-> <<
        "https://upload.wikimedia.org/wikipedia/commons/thumb/6/6d/Volkswagen_logo_2019.svg/1200px-Volkswagen_logo_2019.svg.png",
        "https://images.unsplash.com/photo-1606664515524-ed2f786a0bd6?w=800" >>],
    [term |-> "audi", images |-> <<
        "https://upload.wikimedia.org/wikipedia/commons/thumb/9/92/Audi-Logo_2016.svg/1200px-Audi-Logo_2016.svg.png",
        "https://images.unsplash.com/photo-1544636331-e26879cd4d9b?w=800" >>],
    [term |-> "porsche", images |-> <<
        "https://upload.wikimedia.org/wikipedia/commons/thumb/c/c7/Porsche_logo.svg/1200px-Porsche_logo.svg.png",
        "https://images.unsplash.com/photo-1503376780353-7e6692767b70?w=800" >>],
    [term |-> "honda", images |-> <<
        "https://upload.wikimedia.org/wikipedia/commons/thumb/7/76/Honda_Logo.svg/1200px-Honda_Logo.svg.png",
        "https://images.unsplash.com/photo-1619976215249-95e661cbd259?w=800" >>],
    [term |-> "apple", images |-> <<
        "https://upload.wikimedia.org/wikipedia/commons/f/fa/Apple_logo_black.svg",
        "https://images.unsplash.com/photo-1517077304055-6e89abbf09b0?w=800",
        "https://images.unsplash.com/photo-1512054502232-10a0a035d672?w=800",
        "https://images.unsplash.com/photo-1484704849700-f032a568e944?w=800" >>],
    [term |-> "microsoft", images |-> <<
        "https://upload.wikimedia.org/wikipedia/commons/4/44/Microsoft_logo.svg",
        "https://images.unsplash.com/photo-1633265486064-086b219458ec?w=800",
        "https://images.unsplash.com/photo-1586953208448-b95a79798f07?w=800",
        "https://images.unsplash.com/photo-1606868306217-dbf5046868d2?w=800" >>],
    [term |-> "google", images |-> <<
        "https://upload.wikimedia.org/wikipedia/commons/2/2f/Google_2015_logo.svg",
        "https://images.unsplash.com/photo-1573804633927-bfcbcd909acd?w=800",
        "https://images.unsplash.com/photo-1611224923853-80b023f02d71?w=800",
        "https://images.unsplash.com/photo-1607936854279-55e8f4bc0b9a?w=800" >>],
    [term |-> "amazon", images |-> <<
        "https://upload.wikimedia.org/wikipedia/commons/thumb/a/a9/Amazon_logo.svg/1200px-Amazon_logo.svg.png",
        "https://images.unsplash.com/photo-1523474253046-8cd2748b5fd2?w=800",
        "https://images.unsplash.com/photo-1586880244406-556ebe35f282?w=800",
        "https://images.unsplash.com/photo-1558618047-3c8c76ca7d13?w=800" >>],
    [term |-> "meta", images |-> <<
        "https://upload.wikimedia.org/wikipedia/commons/thumb/7/7b/Meta_Platforms_Inc._logo.svg/1200px-Meta_Platforms_Inc._logo.svg.png",
        "https://images.unsplash.com/photo-1611162617474-5b21e879e113?w=800",
        "https://images.unsplash.com/photo-1611605698335-8b1569810432?w=800" >>],
    [term |-> "facebook", images |-> <<
        "https://upload.wikimedia.org/wikipedia/commons/thumb/7/7b/Meta_Platforms_Inc._logo.svg/1200px-Meta_Platforms_Inc._logo.svg.png",
        "https://images.unsplash.com/photo-1611605698335-8b1569810432?w=800" >>],
    [term |-> "netflix", images |-> <<
        "https://upload.wikimedia.org/wikipedia/commons/thumb/0/08/Netflix_2015_logo.svg/1200px-Netflix_2015_logo.svg.png",
        "https://images.unsplash.com/photo-1574375927938-d5a98e8ffe85?w=800" >>],
    [term |-> "spotify", images |-> <<
        "https://upload.wikimedia.org/wikipedia/commons/thumb/1/19/Spotify_logo_without_text.svg/1200px-Spotify_logo_without_text.svg.png",
        "https://images.unsplash.com/photo-1614680376593-902f74cf0d41?w=800" >>],
    [term |-> "nvidia", images |-> <<
        "https://upload.wikimedia.org/wikipedia/commons/thumb/a/a4/NVIDIA_logo.svg/1200px-NVIDIA_logo.svg.png",
        "https://images.unsplash.com/photo-1591488320449-011701bb6704?w=800" >>],
    [term |-> "intel", images |-> <<
        "https://upload.wikimedia.org/wikipedia/commons/thumb/c/c9/Intel-logo.svg/1200px-Intel-logo.svg.png",
        "https://images.unsplash.com/photo-1555617981-dac3880eac6e?w=800" >>],
    [term |-> "cisco", images |-> <<
        "https://upload.wikimedia.org/wikipedia/commons/thumb/6/64/Cisco_logo.svg/1200px-Cisco_logo.svg.png",
        "https://images.unsplash.com/photo-1558494949-ef010cbdcc31?w=800" >>],
    [term |-> "oracle", images |-> <<
        "https://upload.wikimedia.org/wikipedia/commons/thumb/5/50/Oracle_logo.svg/1200px-Oracle_logo.svg.png",
        "https://images.unsplash.com/photo-1551288049-bebda4e38f71?w=800" >>],
    [term |-> "salesforce", images |-> <<
        "https://upload.wikimedia.org/wikipedia/commons/thumb/f/f9/Salesforce.com_logo.svg/1200px-Salesforce.com_logo.svg.png",
        "https://images.unsplash.com/photo-1460925895917-afdab827c52f?w=800" >>],
    [term |-> "visa", images |-> <<
        "https://upload.wikimedia.org/wikipedia/commons/thumb/5/5e/Visa_Inc._logo.svg/1200px-Visa_Inc._logo.svg.png",
        "https://images.unsplash.com/photo-1556742049-0cfed4f6a45d?w=800" >>],
    [term |-> "mastercard", images |-> <<
        "https://upload.wikimedia.org/wikipedia/commons/thumb/b/b7/MasterCard_Logo.svg/1200px-MasterCard_Logo.svg.png",
        "https://images.unsplash.com/photo-1559526324-4b87b5e36e44?w=800" >>],
    [term |-> "paypal", images |-> <<
        "https://upload.wikimedia.org/wikipedia/commons/thumb/b/b5/PayPal.svg/1200px-PayPal.svg.png",
        "https://images.unsplash.com/photo-1563013544-824ae1b704d3?w=800" >>],
    [term |-> "automotive", images |-> <<
        "https://images.unsplash.com/photo-1503376780353-7e6692767b70?w=800",
        "https://images.unsplash.com/photo-1549317661-bd32c8ce0db2?w=800",
        "https://images.unsplash.com/photo-1552519507-da3b142c6e3d?w=800",
        "https://images.unsplash.com/photo-1544636331-e26879cd4d9b?w=800" >>],
    [term |-> "banking", images |-> <<
        "https://images.unsplash.com/photo-1554224155-6726b3ff858f?w=800",
        "https://images.unsplash.com/photo-1559526324-4b87b5e36e44?w=800",
        "https://images.unsplash.com/photo-1556742049-0cfed4f6a45d?w=800",
        "https://images.unsplash.com/photo-1563013544-824ae1b704d3?w=800" >>],
    [term |-> "healthcare", images |-> <<
        "https://images.unsplash.com/photo-1559757148-5c350d0d3c56?w=800",
        "https://images.unsplash.com/photo-1576091160399-112ba8d25d1f?w=800",
        "https://images.unsplash.com/photo-1538108149393-fbbd81895907?w=800",
        "https://images.unsplash.com/photo-1559757175-0eb30cd8c063?w=800" >>],
    [term |-> "aviation", images |-> <<
        "https://images.unsplash.com/photo-1540962351504-03099e0a754b?w=800",
        "https://images.unsplash.com/photo-1556388158-158ea5ccacbd?w=800",
        "https://images.unsplash.com/photo-1544620347-c4fd4a3d5957?w=800" >>],
    [term |-> "manufacturing", images |-> <<
        "https://images.unsplash.com/photo-1565514020179-026b92b84bb6?w=800",
        "https://images.unsplash.com/photo-1581092160562-40aa08e78837?w=800",
        "https://images.unsplash.com/photo-1581091226825-a6a2a5aee158?w=800" >>],
    [term |-> "iphone", images |-> <<
        "https://images.unsplash.com/photo-1512054502232-10a0a035d672?w=800",
        "https://images.unsplash.com/photo-1517077304055-6e89abbf09b0?w=800",
        "https://images.unsplash.com/photo-1484704849700-f032a568e944?w=800" >>],
    [term |-> "android", images |-> <<
        "https://images.unsplash.com/photo-1607936854279-55e8f4bc0b9a?w=800",
        "https://images.unsplash.com/photo-1611224923853-80b023f02d71?w=800",
        "https://images.unsplash.com/photo-1573804633927-bfcbcd909acd?w=800" >>],
    [term |-> "windows", images |-> <<
        "https://images.unsplash.com/photo-1633265486064-086b219458ec?w=800",
        "https://images.unsplash.com/photo-1586953208448-b95a79798f07?w=800",
        "https://images.unsplash.com/photo-1606868306217-dbf5046868d2?w=800" >>],
    [term |-> "security", images |-> <<
        "https://images.unsplash.com/photo-1555421689-491a97ff2040?w=800",
        "https://images.unsplash.com/photo-1563986768609-322da13575f3?w=800",
        "https://images.unsplash.com/photo-1578662996442-48f60103fc96?w=800",
        "https://images.unsplash.com/photo-1550751827-4bd374c3f58b?w=800",
        "https://images.unsplash.com/photo-1516321497487-e288fb19713f?w=800" >>],
    [term |-> "cybersecurity", images |-> <<
        "https://images.unsplash.com/photo-1555421689-491a97ff2040?w=800",
        "https://images.unsplash.com/photo-1518709268805-4e9042af2176?w=800",
        "https://images.unsplash.com/photo-1573164713714-d95e436ab8d6?w=800",
        "https://images.unsplash.com/photo-1563986768609-322da13575f3?w=800",
        "https://images.unsplash.com/photo-1550751827-4bd374c3f58b?w=800" >>],
    [term |-> "network", images |-> <<
        "https://images.unsplash.com/photo-1558494949-ef010cbdcc31?w=800",
        "https://images.unsplash.com/photo-1544197150-b99a580bb7a8?w=800",
        "https://images.unsplash.com/photo-1558618047-3c8c76ca7d13?w=800",
        "https://images.unsplash.com/photo-1573804633927-bfcbcd909acd?w=800" >>],
    [term |-> "data", images |-> <<
        "https://images.unsplash.com/photo-1551288049-bebda4e38f71?w=800",
        "https://images.unsplash.com/photo-1518709268805-4e9042af2176?w=800",
        "https://images.unsplash.com/photo-1460925895917-afdab827c52f?w=800",
        "https://images.unsplash.com/photo-1573164713714-d95e436ab8d6?w=800" >>],
    [term |-> "technology", images |-> <<
        "https://images.unsplash.com/photo-1518709268805-4e9042af2176?w=800",
        "https://images.unsplash.com/photo-1519389950473-47ba0277781c?w=800",
        "https://images.unsplash.com/photo-1581091226825-a6a2a5aee158?w=800",
        "https://images.unsplash.com/photo-1555617981-dac3880eac6e?w=800" >>]
  >>

fallback_images ==
  << "https://images.unsplash.com/photo-1555421689-491a97ff2040?w=800",
     "https://images.unsplash.com/photo-1563986768609-322da13575f3?w=800",
     "https://images.unsplash.com/photo-1550751827-4bd374c3f58b?w=800",
     "https://images.unsplash.com/photo-1518709268805-4e9042af2176?w=800" >>

EmptyPoolImage == "https://images.unsplash.com/photo-1555421689-491a97ff2040?w=800"

\* first index at which a list of booleans is true, 0 if none: the
\* `for ... if ...: return` loops over default_images.items()
FirstIndex(hits) ==
    IF \E i \in 1..Len(hits) : hits[i]
    THEN CHOOSE i \in 1..Len(hits) : hits[i] /\ \A j \in 1..(i - 1) : ~hits[j]
    ELSE 0

\* Selection with one loop that takes the first key equal to or contained in
\* the query
Selection_oneloop(search_query) ==
    LET query_lower == Lower(search_query)
        pa == FirstIndex([i \in 1..Len(default_images) |->
                            Contains(query_lower, default_images[i].term)])
    IN  IF pa # 0 /\ default_images[pa].term = query_lower
        THEN [key |-> "exact_" \o default_images[pa].term, term |-> default_images[pa].term,
              images |-> default_images[pa].images]
        ELSE IF pa # 0
        THEN [key |-> "partial_" \o default_images[pa].term, term |-> default_images[pa].term,
              images |-> default_images[pa].images]
        ELSE [key |-> "fallback", term |-> "", images |-> fallback_images]

\* Selection without the loop over partial matches
Selection_exactonly(search_query) ==
    LET query_lower == Lower(search_query)
        ex == FirstIndex([i \in 1..Len(default_images) |->
                            default_images[i].term = query_lower])
    IN  IF ex # 0
        THEN [key |-> "exact_" \o default_images[ex].term, term |-> default_images[ex].term,
              images |-> default_images[ex].images]
        ELSE [key |-> "fallback", term |-> "", images |-> fallback_images]

\* Selection with the containment test of the partial match turned round
Selection_reversed(search_query) ==
    LET query_lower == Lower(search_query)
        ex == FirstIndex([i \in 1..Len(default_images) |->
                            default_images[i].term = query_lower])
        pa == FirstIndex([i \in 1..Len(default_images) |->
                            Contains(default_images[i].term, query_lower)])
    IN  IF ex # 0
        THEN [key |-> "exact_" \o default_images[ex].term, term |-> default_images[ex].term,
              images |-> default_images[ex].images]
        ELSE IF pa # 0
        THEN [key |-> "partial_" \o default_images[pa].term, term |-> default_images[pa].term,
              images |-> default_images[pa].images]
        ELSE [key |-> "fallback", term |-> "", images |-> fallback_images]

\* Selection whose substring loop takes the longest key contained in the
\* query instead of the first
Selection_longest(search_query) ==
    LET query_lower == Lower(search_query)
        ex == FirstIndex([i \in 1..Len(default_images) |->
                            default_images[i].term = query_lower])
        inq == { i \in 1..Len(default_images) :
                    Contains(query_lower, default_images[i].term) }
        pa == IF inq = {} THEN 0
              ELSE CHOOSE i \in inq :
                      \A j \in inq :
                          \/ Len(default_images[j].term) < Len(default_images[i].term)
                          \/ (Len(default_images[j].term) = Len(default_images[i].term)
                                 /\ i <= j)
    IN  IF ex # 0
        THEN [key |-> "exact_" \o default_images[ex].term, term |-> default_images[ex].term,
              images |-> default_images[ex].images]
        ELSE IF pa # 0
        THEN [key |-> "partial_" \o default_images[pa].term, term |-> default_images[pa].term,
              images |-> default_images[pa].images]
        ELSE [key |-> "fallback", term |-> "", images |-> fallback_images]

\* the catalog lookup of get_default_security_image: exact match of the
\* lowercased query, then first key contained in it, then the generic pool
Selection(search_query) ==
    LET query_lower == Lower(search_query)
        ex == FirstIndex([i \in 1..Len(default_images) |->
                            default_images[i].term = query_lower])
        pa == FirstIndex([i \in 1..Len(default_images) |->
                            Contains(query_lower, default_images[i].term)])
    IN  IF ex # 0
        THEN [key |-> "exact_" \o default_images[ex].term, term |-> default_images[ex].term,
              images |-> default_images[ex].images]
        ELSE IF pa # 0
        THEN [key |-> "partial_" \o default_images[pa].term, term |-> default_images[pa].term,
              images |-> default_images[pa].images]
        ELSE [key |-> "fallback", term |-> "", images |-> fallback_images]

----------------------------------------------------------------------------
(* The built-in hash() of a string.  CPython seeds it per process unless   *)
(* PYTHONHASHSEED is fixed; the model takes a seeded multiplicative string *)
(* hash at 16 bit width, read as a signed value, as its stand-in.          *)

Digits == "0123456789"

IndexIn(alphabet, c) == CHOOSE i \in 1..Len(alphabet) : SubSeq(alphabet, i, i) = c
IsIn(alphabet, c)    == \E i \in 1..Len(alphabet) : SubSeq(alphabet, i, i) = c

\* ord(c) for the characters hash inputs are made of
Ord(c) ==
    IF IsIn(LowerAlpha, c) THEN 96 + IndexIn(LowerAlpha, c)
    ELSE IF IsIn(UpperAlpha, c) THEN 64 + IndexIn(UpperAlpha, c)
    ELSE IF IsIn(Digits, c) THEN 47 + IndexIn(Digits, c)
    ELSE IF c = "_" THEN 95
    ELSE IF c = " " THEN 32
    ELSE 0

HashSeeds == 0..MaxSeed

RECURSIVE HashFrom(_, _)
HashFrom(x, s) ==
    IF s = "" THEN x
    ELSE HashFrom((x * 31 + Ord(SubSeq(s, 1, 1))) % 65536, SubSeq(s, 2, Len(s)))

\* hash(s) in a process whose seed is `seed`
Hash(seed, s) ==
    LET x == HashFrom(seed, s)
    IN  IF x >= 32768 THEN x - 65536 ELSE x

\* rotate_image_selection that moves on with every resolution of the process
\* (a call counter) instead of with the clock alone
rotate_image_selection_counter(images, category_key, current_hour, seed) ==
    IF Len(images) = 0 THEN EmptyPoolImage
    ELSE LET selection_hash ==
                 (Hash(seed, category_key \o "_" \o ToStr(current_hour)) + run) % Len(images)
         IN  images[selection_hash + 1]

\* rotate_image_selection that treats a pool of one member as an empty pool
rotate_image_selection_short(images, category_key, current_hour, seed) ==
    IF Len(images) <= 1 THEN EmptyPoolImage
    ELSE LET selection_hash ==
                 Hash(seed, category_key \o "_" \o ToStr(current_hour)) % Len(images)
         IN  images[selection_hash + 1]

\* rotate_image_selection(images, category_key) at hour current_hour
rotate_image_selection(images, category_key, current_hour, seed) ==
    IF Len(images) = 0 THEN EmptyPoolImage
    ELSE LET selection_hash ==
                 Hash(seed, category_key \o "_" \o ToStr(current_hour)) % Len(images)
         IN  images[selection_hash + 1]

\* Selection tabulated over the base queries
SelectionOf == [q \in BaseQueries |-> Selection(q)]

\* get_default_security_image that hands the query itself to
\* rotate_image_selection as the category key
get_default_security_image_querykey(search_query, current_hour, seed) ==
    LET sel == SelectionOf[search_query]
    IN  rotate_image_selection(sel.images, search_query, current_hour, seed)

\* get_default_security_image(search_query) at hour current_hour
get_default_security_image(search_query, current_hour, seed) ==
    LET sel == SelectionOf[search_query]
    IN  rotate_image_selection(sel.images, sel.key, current_hour, seed)

\* get_default_security_image tabulated over the base queries, the hours and
\* the seeds
DefaultImageOf ==
    [q \in BaseQueries |-> [h \in 0..MaxHour |-> [s \in HashSeeds |->
        get_default_security_image(q, h, s)]]]

\* every URL of the catalog, and the pools as sets
PoolOf(images) == { images[i] : i \in 1..Len(images) }
CatalogTerms   == { default_images[i].term : i \in 1..Len(default_images) }
CatalogUrls    == UNION { PoolOf(default_images[i].images) : i \in 1..Len(default_images) }
               
----------------------------------------------------------------------------
(* validate_image_url *)

BlockedDomains == << "facebook.com", "instagram.com", "twitter.com", "linkedin.com",
                     "tiktok.com", "pinterest.com", "reddit.com" >>

StartsWith(s, t) == Len(t) <= Len(s) /\ SubSeq(s, 1, Len(t)) = t

\* what requests.head(url, timeout=5, allow_redirects=True) can do: raise
\* (timeout, connection error), or answer with a status and a content type
HeadRaise == [exc |-> TRUE, status_code |-> 0, content_type |-> ""]
HeadAnswer(status, ctype) == [exc |-> FALSE, status_code |-> status, content_type |-> ctype]

\* requests raises MissingSchema / InvalidSchema for a URL that is not http(s)
HeadOf(url, head) ==
    IF StartsWith(Lower(url), "http://") \/ StartsWith(Lower(url), "https://")
    THEN head ELSE HeadRaise

\* validate_image_url without the test of the status code
validate_image_url_anystatus(url, head) ==
    LET response == HeadOf(url, head)
    IN  IF response.exc THEN FALSE
        ELSE /\ Contains(Lower(response.content_type), "image")
             /\ ~AnyIn(BlockedDomains, Lower(url))

\* validate_image_url without the check against blocked_domains
validate_image_url_noblock(url, head) ==
    LET response == HeadOf(url, head)
    IN  IF response.exc THEN FALSE
        ELSE /\ response.status_code = 200
             /\ Contains(Lower(response.content_type), "image")

validate_image_url(url, head) ==
    LET response == HeadOf(url, head)
    IN  IF response.exc THEN FALSE
        ELSE /\ response.status_code = 200
             /\ Contains(Lower(response.content_type), "image")
             /\ ~AnyIn(BlockedDomains, Lower(url))

----------------------------------------------------------------------------
(* calculate_image_relevance_score *)

preferred_domains == << "wikimedia.org", "wikipedia.org", "unsplash.com", "pexels.com",
                        "flickr.com", "commons.wikimedia.org", "upload.wikimedia.org" >>
bad_domains == << "pinterest.com", "facebook.com", "instagram.com", "twitter.com",
                  "tiktok.com", "snapchat.com", "reddit.com", "tumblr.com" >>
brand_terms == << "logo", "brand", "official", "jaguar", "land rover", "tesla",
                  "apple", "microsoft" >>
logo_indicators == << "logo", "official", "brand", "symbol", "emblem" >>

\* str.split(): the maximal runs of non-whitespace characters
RECURSIVE SplitFrom(_, _, _)
SplitFrom(s, i, cur) ==
    IF i > Len(s) THEN (IF cur # "" THEN << cur >> ELSE << >>)
    ELSE LET c == SubSeq(s, i, i)
         IN  IF c \in Whitespace
             THEN (IF cur # "" THEN << cur >> ELSE << >>) \o SplitFrom(s, i + 1, "")
             ELSE SplitFrom(s, i + 1, cur \o c)

Split(s) == SplitFrom(s, 1, "")

\* the brand/company bonus of one query term
BrandPoints(term, url_lower, title, snippet) ==
    IF \E i \in 1..Len(brand_terms) : brand_terms[i] = term
    THEN (IF Contains(title, term) \/ Contains(snippet, term) THEN 25 ELSE 0)
         + (IF Contains(url_lower, term) THEN 15 ELSE 0)
    ELSE 0

\* TermPoints without the test of the length of the term
TermPoints_anylength(term, url_lower, title, snippet) ==
    (IF Contains(title, term) THEN 10 ELSE 0)
    + (IF Contains(snippet, term) THEN 8 ELSE 0)
    + (IF Contains(url_lower, term) THEN 5 ELSE 0)

\* the general matching points of one query term
TermPoints(term, url_lower, title, snippet) ==
    IF Len(term) > 2
    THEN (IF Contains(title, term) THEN 10 ELSE 0)
         + (IF Contains(snippet, term) THEN 8 ELSE 0)
         + (IF Contains(url_lower, term) THEN 5 ELSE 0)
    ELSE 0

\* the two `for term in query_terms` loops
RECURSIVE TermsScore(_, _, _, _)
TermsScore(query_terms, url_lower, title, snippet) ==
    IF query_terms = << >> THEN 0
    ELSE BrandPoints(Head(query_terms), url_lower, title, snippet)
         + TermPoints(Head(query_terms), url_lower, title, snippet)
         + TermsScore(Tail(query_terms), url_lower, title, snippet)

\* the score before the floor at 0, without the domain bonus and penalty
RawScore_nodomains(search_query, image_url, title, snippet) ==
    LET query_terms == Split(Lower(search_query))
        url_lower   == Lower(image_url)
    IN  TermsScore(query_terms, url_lower, title, snippet)
        + (IF \E i \in 1..Len(logo_indicators) :
                 \/ Contains(title, logo_indicators[i])
                 \/ Contains(snippet, logo_indicators[i])
           THEN 15 ELSE 0)
        + (IF Contains(search_query, "logo") /\ EndsWith(url_lower, ".png") THEN 10
           ELSE IF ~Contains(search_query, "logo") /\ EndsWith(url_lower, ".jpg") THEN 5
           ELSE 0)

\* the score before the floor at 0
RawScore(search_query, image_url, title, snippet) ==
    LET query_terms == Split(Lower(search_query))
        url_lower   == Lower(image_url)
    IN  (IF AnyIn(preferred_domains, url_lower) THEN 30 ELSE 0)
        + (IF AnyIn(bad_domains, url_lower) THEN 0 - 20 ELSE 0)
        + TermsScore(query_terms, url_lower, title, snippet)
        + (IF \E i \in 1..Len(logo_indicators) :
                 \/ Contains(title, logo_indicators[i])
                 \/ Contains(snippet, logo_indicators[i])
           THEN 15 ELSE 0)
        + (IF Contains(search_query, "logo") /\ EndsWith(url_lower, ".png") THEN 10
           ELSE IF ~Contains(search_query, "logo") /\ EndsWith(url_lower, ".jpg") THEN 5
           ELSE 0)

\* calculate_image_relevance_score without max(0, score)
calculate_image_relevance_score_nofloor(search_query, image_url, title, snippet) ==
    RawScore(search_query, image_url, title, snippet)

calculate_image_relevance_score(search_query, image_url, title, snippet) ==
    LET score == RawScore(search_query, image_url, title, snippet)
    IN  IF score > 0 THEN score ELSE 0

----------------------------------------------------------------------------
(* search_google_images_enhanced *)

\* An item of a Custom Search response: link, title and snippet as the JSON
\* gives them (NoneV for null, Some("") for an absent key, which .get()
\* turns into ''), and head, the answer of the item's host to the HEAD
\* request of validate_image_url.
Item(link, title, snippet, head) ==
    [link |-> link, title |-> title, snippet |-> snippet, head |-> head]

Candidates ==
    { Item(Some("https://upload.wikimedia.org/wikipedia/commons/jaguar_logo.png"),
           Some("Jaguar Logo"), Some("Official Jaguar emblem"),
           HeadAnswer(200, "image/png")),
      Item(Some("https://i.pinterest.com/jaguar_logo.png"),
           Some("jaguar logo official brand"), Some("jaguar land rover logo"),
           HeadAnswer(200, "image/png")),
      Item(Some("https://example.com/photo.jpg"),
           Some(""), Some(""),
           HeadAnswer(200, "Image/JPEG")),
      Item(Some("https://cdn.example.com/landrover.jpg"),
           Some("Land Rover hack"), Some("land rover"),
           HeadAnswer(200, "text/html")),
      Item(Some(""),
           Some("official logo"), Some(""),
           HeadAnswer(200, "image/png")),
      Item(Some("https://example.com/page.png"),
           NoneV, Some("logo"),
           HeadAnswer(200, "image/png")) }

ItemLists == UNION { [1..n -> Candidates] : n \in 0..MaxItems }

\* what requests.get(...), raise_for_status() and response.json() can give:
\* an exception, a document without 'items', or a document with items
GoogleResponses ==
    { [kind |-> "error", items |-> << >>], [kind |-> "noitems", items |-> << >>] }
    \cup { [kind |-> "items", items |-> its] : its \in ItemLists }

\* the body of the for loop for one item: whether handling it raises
\* (a null link, title or snippet), its score, and whether it is appended
\* to scored_images
ItemResult(search_query, item) ==
    IF item.link.isNone \/ item.title.isNone \/ item.snippet.isNone
    THEN [exc |-> TRUE, score |-> 0, keep |-> FALSE]
    ELSE LET image_url == item.link.v
             title     == Lower(item.title.v)
             snippet   == Lower(item.snippet.v)
             score     == calculate_image_relevance_score(
                              search_query, image_url, title, snippet)
         IN  [exc |-> FALSE, score |-> score,
              keep |-> score > 0 /\ validate_image_url(image_url, item.head)]

\* the variants of the base queries, and ItemResult tabulated over them
VariantsOf == [q \in CascadeQueries |-> generate_search_variants(q)]
AllVariants == UNION { { VariantsOf[q][i] : i \in 1..Len(VariantsOf[q]) } : q \in CascadeQueries }

\* a second item of the score of the first candidate, on another host name
TieItem ==
    Item(Some("https://commons.wikimedia.org/wikipedia/commons/jaguar_logo.png"),
         Some("Jaguar Logo"), Some("Official Jaguar emblem"),
         HeadAnswer(200, "image/png"))

RankCandidates == Candidates \cup { TieItem }

ItemResults == [v \in AllVariants |-> [c \in RankCandidates |-> ItemResult(v, c)]]

\* the for loop over data['items']: scored_images, the URLs the validator
\* accepted, and whether handling an item raised
RECURSIVE ScanItems(_, _, _)
ScanItems(search_query, items, acc) ==
    IF items = << >> THEN acc
    ELSE LET item == Head(items)
             r    == ItemResults[search_query][item]
         IN  IF r.exc
             THEN [acc EXCEPT !.exc = TRUE]
             ELSE ScanItems(search_query, Tail(items),
                    [scored |-> IF r.keep
                                THEN Append(acc.scored, [url |-> item.link.v, score |-> r.score])
                                ELSE acc.scored,
                     ok     |-> IF r.keep
                                THEN acc.ok \cup { [url |-> item.link.v, head |-> item.head] }
                                ELSE acc.ok,
                     exc    |-> FALSE])

\* the last entry of the highest score, as an unstable sort could give
Best_last(scored) ==
    scored[CHOOSE i \in 1..Len(scored) :
              /\ \A j \in 1..Len(scored) : scored[j].score <= scored[i].score
              /\ \A j \in (i + 1)..Len(scored) : scored[j].score < scored[i].score]

\* scored_images.sort(key=lambda x: x[1], reverse=True)[0]: the sort is
\* stable, so the first entry of the highest score
Best(scored) ==
    scored[CHOOSE i \in 1..Len(scored) :
              /\ \A j \in 1..Len(scored) : scored[j].score <= scored[i].score
              /\ \A j \in 1..(i - 1) : scored[j].score < scored[i].score]

\* search_google_images_enhanced without the try/except around the request
search_google_images_enhanced_uncaught(search_query, configured, resp) ==
    IF ~configured
    THEN [ret |-> NoneV, exc |-> FALSE, ok |-> {}, req |-> FALSE, fault |-> FALSE]
    ELSE IF resp.kind = "error"
    THEN [ret |-> NoneV, exc |-> TRUE, ok |-> {}, req |-> TRUE, fault |-> FALSE]
    ELSE IF resp.kind # "items"
    THEN [ret |-> NoneV, exc |-> FALSE, ok |-> {}, req |-> TRUE, fault |-> FALSE]
    ELSE LET s == ScanItems(search_query, resp.items,
                            [scored |-> << >>, ok |-> {}, exc |-> FALSE])
         IN  IF s.exc \/ s.scored = << >>
             THEN [ret |-> NoneV, exc |-> FALSE, ok |-> s.ok, req |-> TRUE,
                   fault |-> s.exc]
             ELSE [ret |-> Some(Best(s.scored).url), exc |-> FALSE, ok |-> s.ok,
                   req |-> TRUE, fault |-> s.exc]

\* search_google_images_enhanced without the check of the credentials
search_google_images_enhanced_nocreds(search_query, configured, resp) ==
    IF resp.kind # "items"
    THEN [ret |-> NoneV, exc |-> FALSE, ok |-> {}, req |-> TRUE, fault |-> FALSE]
    ELSE LET s == ScanItems(search_query, resp.items,
                            [scored |-> << >>, ok |-> {}, exc |-> FALSE])
         IN  IF s.exc \/ s.scored = << >>
             THEN [ret |-> NoneV, exc |-> FALSE, ok |-> s.ok, req |-> TRUE,
                   fault |-> s.exc]
             ELSE [ret |-> Some(Best(s.scored).url), exc |-> FALSE, ok |-> s.ok,
                   req |-> TRUE, fault |-> s.exc]

\* search_google_images_enhanced that returns the best of the items scored
\* before an item raised
search_google_images_enhanced_partial(search_query, configured, resp) ==
    IF ~configured
    THEN [ret |-> NoneV, exc |-> FALSE, ok |-> {}, req |-> FALSE, fault |-> FALSE]
    ELSE IF resp.kind # "items"
    THEN [ret |-> NoneV, exc |-> FALSE, ok |-> {}, req |-> TRUE, fault |-> FALSE]
    ELSE LET s == ScanItems(search_query, resp.items,
                            [scored |-> << >>, ok |-> {}, exc |-> FALSE])
         IN  IF s.scored = << >>
             THEN [ret |-> NoneV, exc |-> FALSE, ok |-> s.ok, req |-> TRUE,
                   fault |-> s.exc]
             ELSE [ret |-> Some(Best(s.scored).url), exc |-> FALSE, ok |-> s.ok,
                   req |-> TRUE, fault |-> s.exc]

\* ret: the value returned; exc: an exception left the function;
\* ok: the URLs validate_image_url accepted; req: a request was sent;
\* fault: handling an item raised (caught and logged at lines 223-224)
search_google_images_enhanced(search_query, configured, resp) ==
    IF ~configured
    THEN [ret |-> NoneV, exc |-> FALSE, ok |-> {}, req |-> FALSE, fault |-> FALSE]
    ELSE IF resp.kind # "items"
    THEN [ret |-> NoneV, exc |-> FALSE, ok |-> {}, req |-> TRUE, fault |-> FALSE]
    ELSE LET s == ScanItems(search_query, resp.items,
                            [scored |-> << >>, ok |-> {}, exc |-> FALSE])
         IN  IF s.exc \/ s.scored = << >>
             THEN [ret |-> NoneV, exc |-> FALSE, ok |-> s.ok, req |-> TRUE,
                   fault |-> s.exc]
             ELSE [ret |-> Some(Best(s.scored).url), exc |-> FALSE, ok |-> s.ok,
                   req |-> TRUE, fault |-> s.exc]

\* what search_google_images_enhanced(v) gives over all the answers of the
\* provider, each with the kind of the answer, with and without credentials
GoogleAnswers ==
    [v \in AllVariants |->
        [on \in BOOLEAN |->
            { [r |-> search_google_images_enhanced(v, on, resp), kind |-> resp.kind] :
                  resp \in GoogleResponses }]]

----------------------------------------------------------------------------
(* search_unsplash_images *)

IsWordChar(c) == IsIn(LowerAlpha, c) \/ IsIn(UpperAlpha, c) \/ IsIn(Digits, c) \/ c = "_"

\* re.sub(r'\b(icon|logo)\b', '', s): the whole words icon and logo removed
RECURSIVE RemoveIconLogo(_, _)
RemoveIconLogo(s, i) ==
    IF i > Len(s) THEN ""
    ELSE IF /\ i + 3 <= Len(s)
            /\ SubSeq(s, i, i + 3) \in {"icon", "logo"}
            /\ (i = 1 \/ ~IsWordChar(SubSeq(s, i - 1, i - 1)))
            /\ (i + 4 > Len(s) \/ ~IsWordChar(SubSeq(s, i + 4, i + 4)))
         THEN RemoveIconLogo(s, i + 4)
         ELSE SubSeq(s, i, i) \o RemoveIconLogo(s, i + 1)

clean_query(search_query) ==
    LET c == Strip(RemoveIconLogo(search_query, 1))
    IN  IF c = "" THEN "technology security" ELSE c

\* what the Unsplash request can give: an exception (transport, HTTP status,
\* JSON, missing key), no results, or a first result whose urls.regular is
\* null, empty or a URL
UnsplashResponses ==
    { [kind |-> "error",   regular |-> NoneV],
      [kind |-> "empty",   regular |-> NoneV],
      [kind |-> "results", regular |-> NoneV],
      [kind |-> "results", regular |-> Some("")],
      [kind |-> "results", regular |-> Some("https://images.unsplash.com/photo-1614064641938-3bbee52942c7?w=1080")] }

\* search_unsplash_images without the check of the access key
search_unsplash_images_nocreds(search_query, configured, resp) ==
    IF resp.kind # "results"
    THEN [ret |-> NoneV, exc |-> FALSE, req |-> TRUE]
    ELSE [ret |-> resp.regular, exc |-> FALSE, req |-> TRUE]

\* search_unsplash_images without the try/except around the request
search_unsplash_images_uncaught(search_query, configured, resp) ==
    IF ~configured
    THEN [ret |-> NoneV, exc |-> FALSE, req |-> FALSE]
    ELSE IF resp.kind = "error"
    THEN [ret |-> NoneV, exc |-> TRUE, req |-> TRUE]
    ELSE IF resp.kind # "results"
    THEN [ret |-> NoneV, exc |-> FALSE, req |-> TRUE]
    ELSE [ret |-> resp.regular, exc |-> FALSE, req |-> TRUE]

search_unsplash_images(search_query, configured, resp) ==
    IF ~configured
    THEN [ret |-> NoneV, exc |-> FALSE, req |-> FALSE]
    ELSE IF resp.kind # "results"
    THEN [ret |-> NoneV, exc |-> FALSE, req |-> TRUE]
    ELSE [ret |-> resp.regular, exc |-> FALSE, req |-> TRUE]

\* clean_query and search_unsplash_images tabulated over the variants
CleanQueryOf == [v \in AllVariants |-> clean_query(v)]
UnsplashAnswers ==
    [v \in AllVariants |-> [on \in BOOLEAN |-> [resp \in UnsplashResponses |->
        search_unsplash_images(v, on, resp)]]]

----------------------------------------------------------------------------
(* The selection kept for comparison: none yet *)

NoSeen == << >>

\* no candidate handed to the scorer yet
NoCand == [query |-> "", url |-> "", alt |-> "", title |-> "", snippet |-> ""]

\* no provider call made yet
NoCall == [p |-> "none", kind |-> "none", hit |-> FALSE, ret |-> NoneV,
           fault |-> FALSE]

----------------------------------------------------------------------------
(* SpecVariants: generate_search_variants applied to every base query *)

InitVariants ==
    /\ query \in BaseQueries
    /\ pc = "input"
    /\ variants = << >>
    /\ vi = 0
    /\ result = NoneV
    /\ source = "none"
    /\ raised = FALSE
    /\ calls = << >>
    /\ validated = {}
    /\ catKey = ""
    /\ googleOn = FALSE
    /\ container = << >>
    /\ ops = << >>
    /\ locals = << >>
    /\ unsplashOn = FALSE
    /\ hour = 0
    /\ hashSeed = 0
    /\ seen = NoSeen
    /\ pool = << >>
    /\ cand = NoCand
    /\ points = 0
    /\ altPoints = 0
    /\ last = NoCall
    /\ stub = << >>
    /\ run = 1

Generate ==
    /\ pc = "input"
    /\ variants' = generate_search_variants(query)
    /\ pc' = "output"
    /\ UNCHANGED << query, vi, result, source, raised, calls, validated, catKey,
                    googleOn, unsplashOn, hour, hashSeed, seen,
                    pool, cand, points,
                    altPoints, last, stub, run,
                    container, ops, locals >>

NextVariants == Generate

SpecVariants == InitVariants /\ [][NextVariants]_vars

----------------------------------------------------------------------------
(* SpecRotation: get_default_security_image called twice, with the clock   *)
(* advancing and the worker process being replaced in between              *)

InitRotation ==
    /\ query = ""
    /\ pc = "idle"
    /\ variants = << >>
    /\ vi = 0
    /\ result = NoneV
    /\ source = "none"
    /\ raised = FALSE
    /\ calls = << >>
    /\ validated = {}
    /\ catKey = ""
    /\ googleOn = FALSE
    /\ container = << >>
    /\ ops = << >>
    /\ locals = << >>
    /\ unsplashOn = FALSE
    /\ hour = 0
    /\ hashSeed \in HashSeeds
    /\ seen = NoSeen
    /\ pool = << >>
    /\ cand = NoCand
    /\ points = 0
    /\ altPoints = 0
    /\ last = NoCall
    /\ stub = << >>
    /\ run = 1

\* one call of get_default_security_image(q); the first call of a pair is
\* kept in seen, the second is left in result for comparison
DefaultImage(q) ==
    /\ pc \in {"idle", "called"}
    /\ catKey' = SelectionOf[q].key
    /\ result' = Some(get_default_security_image(q, hour, hashSeed))
    /\ source' = "default"
    /\ IF pc = "idle"
       THEN /\ seen' = << [key |-> catKey', hour |-> hour, url |-> result'.v] >>
            /\ pc' = "called"
       ELSE /\ seen' = seen
            /\ pc' = "compared"
    /\ UNCHANGED << query, variants, vi, raised, calls, validated, googleOn,
                    unsplashOn, hour, hashSeed,
                    pool, cand, points,
                    altPoints, last, stub, run,
                    container, ops, locals >>

\* the wall clock passes an hour boundary
Tick ==
    /\ pc \in {"idle", "called", "default"}
    /\ hour < MaxHour
    /\ hour' = hour + 1
    /\ UNCHANGED << query, pc, variants, vi, result, source, raised, calls,
                    validated, catKey, googleOn, unsplashOn, hashSeed, seen,
                    pool, cand, points,
                    altPoints, last, stub, run,
                    container, ops, locals >>

\* the function host starts a new Python process: hash() is seeded anew
Restart ==
    /\ pc \in {"idle", "called"}
    /\ hashSeed' \in HashSeeds
    /\ hashSeed' # hashSeed
    /\ UNCHANGED << query, pc, variants, vi, result, source, raised, calls,
                    validated, catKey, googleOn, unsplashOn, hour, seen,
                    pool, cand, points,
                    altPoints, last, stub, run,
                    container, ops, locals >>

NextRotation ==
    \/ \E q \in BaseQueries : DefaultImage(q)
    \/ Tick
    \/ Restart

SpecRotation == InitRotation /\ [][NextRotation]_vars

----------------------------------------------------------------------------
(* Spec: one call of search_for_thumbnail_image(query).  The credentials   *)
(* in the environment and the hash seed are those of the process; the      *)
(* answers of the providers and of the image hosts are chosen per call.    *)

Init ==
    /\ query \in CascadeQueries
    /\ pc = "start"
    /\ variants = << >>
    /\ vi = 0
    /\ result = NoneV
    /\ source = "none"
    /\ raised = FALSE
    /\ calls = << >>
    /\ validated = {}
    /\ catKey = ""
    /\ googleOn \in BOOLEAN
    /\ container = << >>
    /\ ops = << >>
    /\ locals = << >>
    /\ unsplashOn \in BOOLEAN
    /\ hour = 0
    /\ hashSeed \in HashSeeds
    /\ seen = NoSeen
    /\ pool = << >>
    /\ cand = NoCand
    /\ points = 0
    /\ altPoints = 0
    /\ last = NoCall
    /\ stub = << >>
    /\ run = 1

\* search_variants = generate_search_variants(search_query)
Begin ==
    /\ pc = "start"
    /\ variants' = VariantsOf[query]
    /\ vi' = IF variants' = << >> THEN 0 ELSE 1
    /\ pc' = IF variants' = << >> THEN "default" ELSE "google"
    /\ UNCHANGED << query, result, source, raised, calls, validated, catKey,
                    googleOn, unsplashOn, hour, hashSeed, seen,
                    pool, cand, points,
                    altPoints, last, stub, run,
                    container, ops, locals >>

\* image_url = search_google_images_enhanced(variant), r being what the call
\* gives and kind the kind of the provider's answer; return it if truthy
GoogleCall(r, kind) ==
    /\ calls' = Append(calls, [p |-> "google", q |-> variants[vi],
                               sent |-> variants[vi], req |-> r.req,
                               hit |-> ~r.exc /\ Truthy(r.ret)])
    /\ last' = [p |-> "google",
                kind |-> IF r.req THEN kind ELSE "off",
                hit |-> ~r.exc /\ Truthy(r.ret), ret |-> r.ret,
                fault |-> r.fault]
    /\ validated' = validated \cup r.ok
    /\ IF r.exc
       THEN /\ raised' = TRUE
            /\ pc' = "done"
            /\ UNCHANGED << result, source >>
       ELSE IF Truthy(r.ret)
       THEN /\ result' = r.ret
            /\ source' = "google"
            /\ pc' = "done"
            /\ UNCHANGED raised
       ELSE /\ pc' = "unsplash"
            /\ UNCHANGED << result, source, raised >>
    /\ UNCHANGED << query, variants, vi, catKey, googleOn, unsplashOn, hour,
                    hashSeed, seen, pool, cand, points, altPoints,
                    container, ops, locals >>

TryGoogle ==
    /\ pc = "google"
    /\ \E a \in GoogleAnswers[variants[vi]][googleOn] : GoogleCall(a.r, a.kind)
    /\ UNCHANGED << stub, run >>

\* UnsplashCall without the return of a truthy image_url: the loop goes on
UnsplashCall_noreturn(resp) ==
    LET r == UnsplashAnswers[variants[vi]][unsplashOn][resp]
    IN  /\ calls' = Append(calls, [p |-> "unsplash", q |-> variants[vi],
                                   sent |-> CleanQueryOf[variants[vi]],
                                   req |-> r.req,
                                   hit |-> ~r.exc /\ Truthy(r.ret)])
        /\ last' = [p |-> "unsplash",
                    kind |-> IF r.req THEN resp.kind ELSE "off",
                    hit |-> ~r.exc /\ Truthy(r.ret), ret |-> r.ret,
                    fault |-> FALSE]
        /\ IF vi < Len(variants)
           THEN vi' = vi + 1 /\ pc' = "google"
           ELSE vi' = vi /\ pc' = "default"
        /\ IF Truthy(r.ret)
           THEN result' = r.ret /\ source' = "unsplash"
           ELSE UNCHANGED << result, source >>
        /\ UNCHANGED << query, variants, validated, catKey, googleOn, unsplashOn,
                        hour, hashSeed, seen, pool, cand, points, altPoints,
                        raised,
                        container, ops, locals >>

\* image_url = search_unsplash_images(variant), the provider answering resp;
\* return it if truthy, otherwise go on with the next variant or leave the loop
\* UnsplashCall with one more try of the same variant after a failed call
UnsplashCall_retry(resp) ==
    LET r == UnsplashAnswers[variants[vi]][unsplashOn][resp]
    IN  /\ calls' = Append(calls, [p |-> "unsplash", q |-> variants[vi],
                                   sent |-> CleanQueryOf[variants[vi]],
                                   req |-> r.req,
                                   hit |-> ~r.exc /\ Truthy(r.ret)])
        /\ last' = [p |-> "unsplash",
                    kind |-> IF r.req THEN resp.kind ELSE "off",
                    hit |-> ~r.exc /\ Truthy(r.ret), ret |-> r.ret,
                    fault |-> FALSE]
        /\ IF r.exc
           THEN /\ raised' = TRUE
                /\ pc' = "done"
                /\ UNCHANGED << result, source, vi >>
           ELSE IF Truthy(r.ret)
           THEN /\ result' = r.ret
                /\ source' = "unsplash"
                /\ pc' = "done"
                /\ UNCHANGED << raised, vi >>
           ELSE /\ IF last.p # "unsplash"
                   THEN vi' = vi /\ pc' = "unsplash"
                   ELSE IF vi < Len(variants)
                   THEN vi' = vi + 1 /\ pc' = "google"
                   ELSE vi' = vi /\ pc' = "default"
                /\ UNCHANGED << result, source, raised >>
        /\ UNCHANGED << query, variants, validated, catKey, googleOn, unsplashOn,
                        hour, hashSeed, seen, pool, cand, points, altPoints,
                        container, ops, locals >>

UnsplashCall(resp) ==
    LET r == UnsplashAnswers[variants[vi]][unsplashOn][resp]
    IN  /\ calls' = Append(calls, [p |-> "unsplash", q |-> variants[vi],
                                   sent |-> CleanQueryOf[variants[vi]],
                                   req |-> r.req,
                                   hit |-> ~r.exc /\ Truthy(r.ret)])
        /\ last' = [p |-> "unsplash",
                    kind |-> IF r.req THEN resp.kind ELSE "off",
                    hit |-> ~r.exc /\ Truthy(r.ret), ret |-> r.ret,
                    fault |-> FALSE]
        /\ IF r.exc
           THEN /\ raised' = TRUE
                /\ pc' = "done"
                /\ UNCHANGED << result, source, vi >>
           ELSE IF Truthy(r.ret)
           THEN /\ result' = r.ret
                /\ source' = "unsplash"
                /\ pc' = "done"
                /\ UNCHANGED << raised, vi >>
           ELSE /\ IF vi < Len(variants)
                   THEN vi' = vi + 1 /\ pc' = "google"
                   ELSE vi' = vi /\ pc' = "default"
                /\ UNCHANGED << result, source, raised >>
        /\ UNCHANGED << query, variants, validated, catKey, googleOn, unsplashOn,
                        hour, hashSeed, seen, pool, cand, points, altPoints,
                        container, ops, locals >>

TryUnsplash ==
    /\ pc = "unsplash"
    /\ \E resp \in UnsplashResponses : UnsplashCall(resp)
    /\ UNCHANGED << stub, run >>

\* the fallback handed the loop variable, the last variant tried, instead of
\* search_query
UseDefault_lastvariant ==
    /\ pc = "default"
    /\ LET key == IF variants = << >> THEN query ELSE variants[Len(variants)]
           sel == Selection(key)
       IN  /\ catKey' = sel.key
           /\ result' = Some(rotate_image_selection(sel.images, sel.key, hour, hashSeed))
    /\ source' = "default"
    /\ pc' = "done"
    /\ UNCHANGED << query, variants, vi, raised, calls, validated, googleOn,
                    unsplashOn, hour, hashSeed, seen, pool, cand, points,
                    altPoints, last, stub, run,
                    container, ops, locals >>

\* return get_default_security_image(search_query)
UseDefault ==
    /\ pc = "default"
    /\ catKey' = SelectionOf[query].key
    /\ result' = Some(DefaultImageOf[query][hour][hashSeed])
    /\ source' = "default"
    /\ pc' = "done"
    /\ UNCHANGED << query, variants, vi, raised, calls, validated, googleOn,
                    unsplashOn, hour, hashSeed, seen,
                    pool, cand, points,
                    altPoints, last, stub, run,
                    container, ops, locals >>

Next ==
    \/ Begin
    \/ TryGoogle
    \/ TryUnsplash
    \/ UseDefault
    \/ Tick

Spec == Init /\ [][Next]_vars

----------------------------------------------------------------------------
(* Claims about generate_search_variants (SpecVariants) *)

InSeq(seq, x) == \E i \in 1..Len(seq) : seq[i] = x
Distinct(seq) == \A i, j \in 1..Len(seq) : i # j => seq[i] # seq[j]

\* position of the first raw variant that strips to v, 0 if none
RawPosition(q, v) ==
    LET raw == RawVariants(q)
    IN  IF \E k \in 1..Len(raw) : Strip(raw[k]) = v
        THEN CHOOSE k \in 1..Len(raw) :
                Strip(raw[k]) = v /\ \A m \in 1..(k - 1) : Strip(raw[m]) # v
        ELSE 0

\* C4: the variant list has at most 4 entries, pairwise distinct, none empty
\* after trimming, and they stand in the order in which the rules appended them
C4_VariantsBoundedDistinctOrdered ==
    pc = "output" =>
        /\ Len(variants) <= 4
        /\ Distinct(variants)
        /\ \A i \in 1..Len(variants) : Strip(variants[i]) # ""
        /\ \A i \in 1..Len(variants) : RawPosition(query, variants[i]) # 0
        /\ \A i, j \in 1..Len(variants) :
              i < j => RawPosition(query, variants[i]) < RawPosition(query, variants[j])

\* a query for which both the deduplication and the cut to 4 take effect
C4_Witness ==
    /\ pc = "output"
    /\ Len(variants) = 4
    /\ ~Distinct(RawVariants(query))
    /\ Len(dict_fromkeys(StripNonEmpty(RawVariants(query)))) > 4

\* C5: for a base query that is non-empty after trimming the first variant
\* is the trimmed base query
C5_FirstIsTrimmedBase ==
    (pc = "output" /\ Strip(query) # "") =>
        /\ Len(variants) >= 1
        /\ variants[1] = Strip(query)

\* a base query with surrounding whitespace whose first variant is its trimmed form
C5_Witness ==
    /\ pc = "output"
    /\ Strip(query) # ""
    /\ Strip(query) # query
    /\ Len(variants) >= 1
    /\ variants[1] = Strip(query)

\* C6 as stated: an empty or whitespace-only base query yields the
\* one-element list holding the trimmed (empty) base query
C6_EmptyGivesSingleton ==
    (pc = "output" /\ Strip(query) = "") => variants = << Strip(query) >>

\* C6 amended: an empty or whitespace-only base query yields the empty list
C6_EmptyGivesEmptyList ==
    (pc = "output" /\ Strip(query) = "") => variants = << >>

\* a whitespace-only query has been given and no variant came out
C6_Witness ==
    /\ pc = "output"
    /\ query # ""
    /\ Strip(query) = ""
    /\ Len(variants) = 0

BrandAndAutomotive(q) ==
    /\ AnyIn(MajorBrands, q)
    /\ AnyIn(Automotive, q)
    /\ ~Contains(q, "logo")

\* C7 as stated: for a query with a major-brand term and an automotive term
\* and without "logo", the list starts with the base query, contains
\* "{q} logo" and "{q} car" or "{q} automotive", has no duplicates and at
\* most 4 entries
C7_BrandAutomotiveVariants ==
    (pc = "output" /\ BrandAndAutomotive(query)) =>
        /\ Len(variants) >= 1
        /\ variants[1] = query
        /\ InSeq(variants, query \o " logo")
        /\ \/ InSeq(variants, query \o " car")
           \/ InSeq(variants, query \o " automotive")
        /\ Distinct(variants)
        /\ Len(variants) <= 4

\* C7 amended: the same with every entry taken after trimming: the list
\* starts with the trimmed base query and contains the trimmed "{q} logo"
\* and the trimmed "{q} car" or "{q} automotive"
C7_BrandAutomotiveVariantsTrimmed ==
    (pc = "output" /\ BrandAndAutomotive(query)) =>
        /\ Len(variants) >= 1
        /\ variants[1] = Strip(query)
        /\ InSeq(variants, Strip(query \o " logo"))
        /\ \/ InSeq(variants, Strip(query \o " car"))
           \/ InSeq(variants, Strip(query \o " automotive"))
        /\ Distinct(variants)
        /\ Len(variants) <= 4

\* "tesla hack": a brand and automotive query of two words has been expanded
C7_Witness ==
    /\ pc = "output"
    /\ query = "tesla hack"
    /\ variants = << "tesla hack", "tesla hack logo", "tesla hack brand", "tesla hack car" >>

----------------------------------------------------------------------------
(* Claims about the rotation (SpecRotation) *)

\* the pool rotate_image_selection was handed for category key k
PoolOfKey(k) ==
    IF k = "fallback" THEN PoolOf(fallback_images)
    ELSE UNION { PoolOf(default_images[i].images) :
                   i \in { j \in 1..Len(default_images) :
                             k \in { "exact_" \o default_images[j].term,
                                     "partial_" \o default_images[j].term } } }

\* C10: two calls in the same hour bucket for the same category key return
\* the same URL, and a call in any hour bucket returns a member of the pool
\* of its category key
C10_SameHourSameUrl ==
    /\ pc \in {"called", "compared"} => result.v \in PoolOfKey(catKey)
    /\ (pc = "compared" /\ seen[1].key = catKey /\ seen[1].hour = hour) =>
          seen[1].url = result.v

----------------------------------------------------------------------------
(* Claims about search_for_thumbnail_image (Spec) *)

BothDisabled == ~googleOn /\ ~unsplashOn

AllPoolUrls == CatalogUrls \cup PoolOf(fallback_images)

\* C1: for a non-empty base query and any provider outcomes the call
\* raises nothing and returns one non-empty URL string
C1_TotalNonEmptyResult ==
    /\ ~raised
    /\ (pc = "done" /\ query # "") =>
          /\ ~result.isNone
          /\ result.v # ""
          /\ source \in {"google", "unsplash", "default"}

\* a resolution in which provider calls were made, all of them came back
\* without a URL, and the static catalog gave the result
C1_Witness ==
    /\ pc = "done"
    /\ query # ""
    /\ googleOn /\ unsplashOn
    /\ Len(calls) = 8
    /\ source = "default"
    /\ result.v # ""

\* C2: with both providers disabled the URL returned is in a pool of the
\* static catalog or in the generic pool, and no provider request was made
C2_DisabledGivesCatalogUrl ==
    BothDisabled =>
        /\ \A i \in 1..Len(calls) : ~calls[i].req
        /\ pc = "done" =>
              /\ source = "default"
              /\ result.v \in AllPoolUrls

\* both providers disabled, every variant went through both of them
C2_Witness ==
    /\ pc = "done"
    /\ BothDisabled
    /\ Len(calls) = 2 * Len(variants)
    /\ Len(variants) > 1
    /\ result.v \in AllPoolUrls

\* the validator accepted url: reachable with status 200 and an image
\* content type, and no block-listed domain in the URL
PassedValidator(url) ==
    \E v \in validated :
        /\ v.url = url
        /\ ~v.head.exc
        /\ v.head.status_code = 200
        /\ Contains(Lower(v.head.content_type), "image")
        /\ ~AnyIn(BlockedDomains, Lower(url))

\* C3 as stated: every URL the cascade returns, from the primary or from
\* the secondary provider, has passed the URL validator
C3_CascadeUrlValidated ==
    (pc = "done" /\ source \in {"google", "unsplash"}) => PassedValidator(result.v)

\* C3 amended: every URL the primary provider yields has passed the URL
\* validator; the secondary provider's URL is returned as it came
C3_PrimaryUrlValidated ==
    (pc = "done" /\ source = "google") => PassedValidator(result.v)

\* the primary provider has yielded a validated URL, and for a later
\* variant than the base query
C3_Witness ==
    /\ pc = "done"
    /\ source = "google"
    /\ PassedValidator(result.v)
    /\ calls[Len(calls)].q # query

HasCatalogKey(q) == \E t \in CatalogTerms : Contains(Lower(q), t)

\* C8: with both providers disabled a query that contains a catalog key
\* resolves to the pool of a catalog key it contains, never to the generic pool
C8_CatalogKeyBeatsGeneric ==
    (pc = "done" /\ BothDisabled /\ HasCatalogKey(query)) =>
        /\ catKey # "fallback"
        /\ \E i \in 1..Len(default_images) :
              /\ Contains(Lower(query), default_images[i].term)
              /\ catKey \in { "exact_" \o default_images[i].term,
                              "partial_" \o default_images[i].term }
              /\ result.v \in PoolOf(default_images[i].images)

\* "jaguar land rover" holds two catalog keys and resolves to the first
C8_Witness ==
    /\ pc = "done"
    /\ BothDisabled
    /\ query = "jaguar land rover"
    /\ catKey = "partial_jaguar"
    /\ result.v \in PoolOf(default_images[1].images)

\* C9: the empty base query with both providers disabled raises nothing and
\* returns the member of the generic pool that the rotation selects
C9_EmptyQueryGenericPool ==
    (query = "" /\ BothDisabled) =>
        /\ ~raised
        /\ pc = "done" =>
              /\ source = "default"
              /\ catKey = "fallback"
              /\ result.v \in PoolOf(fallback_images)
              /\ result.v = fallback_images[
                     (Hash(hashSeed, "fallback_" \o ToStr(hour)) % Len(fallback_images)) + 1]

\* the empty query has been resolved in the second hour bucket
C9_Witness ==
    /\ pc = "done"
    /\ query = ""
    /\ BothDisabled
    /\ hour = 1
    /\ catKey = "fallback"
    /\ result.v \in PoolOf(fallback_images)

----------------------------------------------------------------------------
(* SpecRotate: rotate_image_selection applied to pools of every length up  *)
(* to MaxPool, under every category key form, hour and hash seed           *)

MaxPool == 2

PoolUrls ==
    { "https://images.unsplash.com/photo-1617788138017-80ad40651399?w=800",
      "https://images.unsplash.com/photo-1550751827-4bd374c3f58b?w=800",
      "https://upload.wikimedia.org/wikipedia/commons/jaguar_logo.png" }

Pools == UNION { [1..n -> PoolUrls] : n \in 0..MaxPool }

CategoryKeys == { "exact_tesla", "partial_hack", "fallback" }

InitRotate ==
    /\ query = ""
    /\ pc = "input"
    /\ variants = << >>
    /\ vi = 0
    /\ result = NoneV
    /\ source = "none"
    /\ raised = FALSE
    /\ calls = << >>
    /\ validated = {}
    /\ catKey \in CategoryKeys
    /\ googleOn = FALSE
    /\ container = << >>
    /\ ops = << >>
    /\ locals = << >>
    /\ unsplashOn = FALSE
    /\ hour \in 0..MaxHour
    /\ hashSeed \in HashSeeds
    /\ seen = NoSeen
    /\ pool \in Pools
    /\ cand = NoCand
    /\ points = 0
    /\ altPoints = 0
    /\ last = NoCall
    /\ stub = << >>
    /\ run = 1

\* result = rotate_image_selection(pool, catKey)
Rotate ==
    /\ pc = "input"
    /\ result' = Some(rotate_image_selection(pool, catKey, hour, hashSeed))
    /\ pc' = "output"
    /\ UNCHANGED << query, variants, vi, source, raised, calls, validated, catKey,
                    googleOn, unsplashOn, hour, hashSeed, seen, pool, cand,
                    points, altPoints, last, stub, run, container, ops, locals,
                    container, ops, locals >>

NextRotate == Rotate

SpecRotate == InitRotate /\ [][NextRotate]_vars

\* C11: for a pool with exactly one member, rotate_image_selection returns
\* that member, whatever the category key, the hour and the hash seed
C11_SingletonPoolReturnsMember ==
    (pc = "output" /\ Len(pool) = 1) => result = Some(pool[1])

\* a pool of one member has been rotated under the generic key in the last hour
C11_Witness ==
    /\ pc = "output"
    /\ Len(pool) = 1
    /\ catKey = "fallback"
    /\ hour = MaxHour
    /\ result = Some(pool[1])

----------------------------------------------------------------------------
(* SpecScore: calculate_image_relevance_score applied to a candidate and   *)
(* to the same candidate on another host                                   *)

BlockedHosts == { "pinterest.com", "reddit.com" }
AllowedHosts == { "upload.wikimedia.org", "flickr.com" }

\* what follows the host in a candidate URL
UrlPaths ==
    { "", "/jaguar_logo.png", "/photo.jpg", "/Tesla.PNG",
      "/flickr.com/reddit.com/logo.png" }

\* a query of ten terms, each the name of a block-listed site
RepeatedTerm ==
    "reddit reddit reddit reddit reddit reddit reddit reddit reddit reddit"

ScoreQueries ==
    { "", "jaguar logo", "tesla hack", "Apple", "reddit breach", "ja", RepeatedTerm }

ScoreTitles == { "", "jaguar logo", "tesla model hack" }
ScoreSnippets == { "", "official emblem" }

\* the URL of a candidate with, as alt, the URL that differs in the host only
ScoreUrls ==
    { [url |-> "https://" \o b \o p, alt |-> "https://" \o a \o p] :
          b \in BlockedHosts, a \in AllowedHosts, p \in UrlPaths }
    \cup { [url |-> u, alt |-> u] : u \in { "", "https://example.com/photo.jpg" } }

InitScore ==
    /\ query = ""
    /\ pc = "input"
    /\ variants = << >>
    /\ vi = 0
    /\ result = NoneV
    /\ source = "none"
    /\ raised = FALSE
    /\ calls = << >>
    /\ validated = {}
    /\ catKey = ""
    /\ googleOn = FALSE
    /\ container = << >>
    /\ ops = << >>
    /\ locals = << >>
    /\ unsplashOn = FALSE
    /\ hour = 0
    /\ hashSeed = 0
    /\ seen = NoSeen
    /\ pool = << >>
    /\ \E q \in ScoreQueries, u \in ScoreUrls, t \in ScoreTitles, s \in ScoreSnippets :
          cand = [query |-> q, url |-> u.url, alt |-> u.alt, title |-> t, snippet |-> s]
    /\ points = 0
    /\ altPoints = 0
    /\ last = NoCall
    /\ stub = << >>
    /\ run = 1

\* points = calculate_image_relevance_score(query, url, title, snippet),
\* and the same for the candidate on the other host
ScoreCandidate ==
    /\ pc = "input"
    /\ points' = calculate_image_relevance_score(
                     cand.query, cand.url, cand.title, cand.snippet)
    /\ altPoints' = calculate_image_relevance_score(
                        cand.query, cand.alt, cand.title, cand.snippet)
    /\ pc' = "output"
    /\ UNCHANGED << query, variants, vi, result, source, raised, calls, validated,
                    catKey, googleOn, unsplashOn, hour, hashSeed, seen, pool,
                    cand, last, stub, run,
                    container, ops, locals >>

NextScore == ScoreCandidate

SpecScore == InitScore /\ [][NextScore]_vars

\* C12: the score returned for any query and candidate is a non-negative
\* integer, also on a penalised domain and with empty URL, title or snippet
C12_ScoreNonNegative ==
    pc = "output" => (points \in Nat /\ altPoints \in Nat)

\* a candidate on a penalised domain with empty title and snippet, whose
\* score before the floor is negative, has been scored 0
C12_Witness ==
    /\ pc = "output"
    /\ AnyIn(bad_domains, Lower(cand.url))
    /\ cand.title = "" /\ cand.snippet = ""
    /\ RawScore(cand.query, cand.url, cand.title, cand.snippet) < 0
    /\ points = 0

\* the URL is on one of the hosts
OnHost(url, hosts) == \E h \in hosts : StartsWith(url, "https://" \o h)

\* the pair under comparison: cand.url on a block-listed host, cand.alt the
\* same candidate on an allow-listed host
BlockedAllowedPair ==
    /\ pc = "output"
    /\ OnHost(cand.url, BlockedHosts)
    /\ OnHost(cand.alt, AllowedHosts)

\* C13 as claimed: the candidate on the block-listed host always scores
\* strictly lower than the same candidate on the allow-listed host
C13_BlockedScoresLower ==
    BlockedAllowedPair => points < altPoints

\* each term of the query that occurs in the block-listed URL occurs in the
\* allow-listed URL as well
TermsOfUrlInAlt ==
    LET terms == Split(Lower(cand.query))
    IN  \A i \in 1..Len(terms) :
            Contains(Lower(cand.url), terms[i]) => Contains(Lower(cand.alt), terms[i])

\* the block-listed URL names an allow-listed domain and the allow-listed
\* URL names a block-listed domain
BothListsInBoth ==
    /\ AnyIn(preferred_domains, Lower(cand.url))
    /\ AnyIn(bad_domains, Lower(cand.alt))

\* C13: the candidate on the block-listed host scores strictly lower than
\* the same candidate on the allow-listed host, unless the block-listed URL
\* names an allow-listed domain while the allow-listed URL names a
\* block-listed one, or a query term occurs in the block-listed URL only
C13_BlockedScoresLowerApart ==
    (BlockedAllowedPair /\ ~BothListsInBoth /\ TermsOfUrlInAlt) => points < altPoints

\* such a pair has been scored, the block-listed one above the floor and 50
\* points below the allow-listed one
C13_Witness ==
    /\ BlockedAllowedPair
    /\ ~BothListsInBoth
    /\ TermsOfUrlInAlt
    /\ points > 0
    /\ altPoints = points + 50

----------------------------------------------------------------------------
(* SpecTwice: search_for_thumbnail_image(query) called twice by one        *)
(* process, the clock standing still and both providers stubbed: the       *)
(* answer a provider gave to a query is the answer it gives to that query  *)
(* again (the answer of the image host to the validator's HEAD request is  *)
(* part of the candidate)                                                  *)

TwiceQueries == { "", "jaguar", "land rover", "Tesla hack", "hack" }

StubGoogleResponses ==
    { [kind |-> "error", items |-> << >>],
      [kind |-> "items",
       items |-> << Item(Some("https://example.com/photo.jpg"), Some(""), Some(""),
                         HeadAnswer(200, "Image/JPEG")) >>],
      [kind |-> "items",
       items |-> << Item(Some("https://upload.wikimedia.org/wikipedia/commons/jaguar_logo.png"),
                         Some("Jaguar Logo"), Some("Official Jaguar emblem"),
                         HeadAnswer(200, "image/png")) >>] }

StubUnsplashResponses ==
    { [kind |-> "empty", regular |-> NoneV],
      [kind |-> "results",
       regular |-> Some("https://images.unsplash.com/photo-1614064641938-3bbee52942c7?w=1080")] }

\* the answers the stub of provider p has given to query q so far
StubAnswers(p, q) ==
    { stub[i].resp : i \in { j \in 1..Len(stub) : stub[j].p = p /\ stub[j].q = q } }

InitTwice ==
    /\ query \in TwiceQueries
    /\ pc = "start"
    /\ variants = << >>
    /\ vi = 0
    /\ result = NoneV
    /\ source = "none"
    /\ raised = FALSE
    /\ calls = << >>
    /\ validated = {}
    /\ catKey = ""
    /\ googleOn \in BOOLEAN
    /\ container = << >>
    /\ ops = << >>
    /\ locals = << >>
    /\ unsplashOn \in BOOLEAN
    /\ hour \in 0..MaxHour
    /\ hashSeed \in HashSeeds
    /\ seen = NoSeen
    /\ pool = << >>
    /\ cand = NoCand
    /\ points = 0
    /\ altPoints = 0
    /\ last = NoCall
    /\ stub = << >>
    /\ run = 1

\* the stubbed primary provider is called
StubGoogle ==
    /\ pc = "google"
    /\ LET known == StubAnswers("google", variants[vi])
       IN  \E resp \in (IF known # {} THEN known ELSE StubGoogleResponses) :
              /\ GoogleCall(search_google_images_enhanced(variants[vi], googleOn, resp),
                            resp.kind)
              /\ stub' = IF known # {} THEN stub
                         ELSE Append(stub, [p |-> "google", q |-> variants[vi],
                                            resp |-> resp])
    /\ UNCHANGED run

\* the stubbed secondary provider is called
StubUnsplash ==
    /\ pc = "unsplash"
    /\ LET known == StubAnswers("unsplash", variants[vi])
       IN  \E resp \in (IF known # {} THEN known ELSE StubUnsplashResponses) :
              /\ UnsplashCall(resp)
              /\ stub' = IF known # {} THEN stub
                         ELSE Append(stub, [p |-> "unsplash", q |-> variants[vi],
                                            resp |-> resp])
    /\ UNCHANGED run

\* the first call has returned; the same query is handed to a second call,
\* whose locals start afresh
Again ==
    /\ pc = "done"
    /\ run = 1
    /\ ~raised
    /\ seen' = << [key |-> catKey, hour |-> hour, url |-> result.v] >>
    /\ run' = 2
    /\ pc' = "start"
    /\ variants' = << >>
    /\ vi' = 0
    /\ result' = NoneV
    /\ source' = "none"
    /\ calls' = << >>
    /\ validated' = {}
    /\ catKey' = ""
    /\ last' = NoCall
    /\ UNCHANGED << query, raised, googleOn, unsplashOn, hour, hashSeed, pool,
                    cand, points, altPoints, stub,
                    container, ops, locals >>

NextTwice ==
    \/ Begin
    \/ StubGoogle
    \/ StubUnsplash
    \/ UseDefault
    \/ Again

SpecTwice == InitTwice /\ [][NextTwice]_vars

----------------------------------------------------------------------------
(* Claims about the order of the cascade (Spec) *)

\* the i-th call of the cascade order primary(v1), secondary(v1),
\* primary(v2), secondary(v2), ...
CascadeProvider(i) == IF i % 2 = 1 THEN "google" ELSE "unsplash"
CascadeVariant(i) == variants[(i + 1) \div 2]

\* C15: the provider calls of a resolution are a prefix of primary(v1),
\* secondary(v1), primary(v2), ... over the generated variants; only the
\* last call can have yielded a URL, the resolution then ends with that URL
\* as its result, and a provider URL is the result only in that way
C15_CallsArePrefixUntilFirstUrl ==
    /\ Len(calls) <= 2 * Len(variants)
    /\ \A i \in 1..Len(calls) :
          /\ calls[i].p = CascadeProvider(i)
          /\ calls[i].q = CascadeVariant(i)
          /\ calls[i].hit =>
                /\ i = Len(calls)
                /\ pc = "done"
                /\ last.p = calls[i].p
                /\ source = calls[i].p
                /\ Truthy(last.ret)
                /\ result = last.ret
    /\ source \in {"google", "unsplash"} =>
          (Len(calls) > 0 /\ calls[Len(calls)].hit)

\* the secondary provider has yielded the URL for the second variant, after
\* three calls without a URL, and the resolution has ended with four calls
C15_Witness ==
    /\ pc = "done"
    /\ Len(variants) = 4
    /\ Len(calls) = 4
    /\ calls[4].hit
    /\ calls[4].p = "unsplash"
    /\ calls[4].q = variants[2]
    /\ source = "unsplash"
    /\ result = last.ret

\* C16: when the static catalog has been consulted, both providers have been
\* called for every variant and no call has yielded a URL, and the catalog
\* was looked up with the original base query: the category key and the
\* pool are those of the base query
C16_CatalogLastWithBaseQuery ==
    (source = "default" \/ catKey # "") =>
        /\ pc = "done"
        /\ source = "default"
        /\ Len(calls) = 2 * Len(variants)
        /\ \A i \in 1..Len(calls) :
              /\ calls[i].p = CascadeProvider(i)
              /\ calls[i].q = CascadeVariant(i)
              /\ ~calls[i].hit
        /\ catKey = Selection(query).key
        /\ ~result.isNone
        /\ InSeq(Selection(query).images, result.v)

\* the catalog has been consulted after eight calls without a URL, for a
\* base query whose last variant would have selected another category
C16_Witness ==
    /\ pc = "done"
    /\ source = "default"
    /\ Len(variants) = 4
    /\ Len(calls) = 8
    /\ catKey = Selection(query).key
    /\ Selection(variants[4]).key # catKey

----------------------------------------------------------------------------
(* SpecGoogle: search_google_images_enhanced applied to every variant and  *)
(* every answer of the provider with up to MaxItems items                  *)

RankResponses ==
    { [kind |-> "error", items |-> << >>], [kind |-> "noitems", items |-> << >>] }
    \cup { [kind |-> "items", items |-> its] :
               its \in UNION { [1..n -> RankCandidates] : n \in 0..MaxItems } }

\* the variants the function is called with
RankQueries == { "jaguar", "jaguar logo", "land rover hack", "hack", "Tesla logo" }

InitGoogle ==
    /\ query \in RankQueries
    /\ pc = "input"
    /\ variants = << >>
    /\ vi = 0
    /\ result = NoneV
    /\ source = "none"
    /\ raised = FALSE
    /\ calls = << >>
    /\ validated = {}
    /\ catKey = ""
    /\ googleOn \in BOOLEAN
    /\ container = << >>
    /\ ops = << >>
    /\ locals = << >>
    /\ unsplashOn = FALSE
    /\ hour = 0
    /\ hashSeed = 0
    /\ seen = NoSeen
    /\ pool = << >>
    /\ cand = NoCand
    /\ points = 0
    /\ altPoints = 0
    /\ last = NoCall
    /\ stub = << >>
    /\ run = 1

\* result = search_google_images_enhanced(query), the provider answering resp
CallGoogle ==
    /\ pc = "input"
    /\ \E resp \in RankResponses :
          LET r == search_google_images_enhanced(query, googleOn, resp)
          IN  /\ stub' = << [p |-> "google", q |-> query, resp |-> resp] >>
              /\ result' = r.ret
              /\ raised' = r.exc
              /\ validated' = r.ok
              /\ last' = [p |-> "google",
                          kind |-> IF r.req THEN resp.kind ELSE "off",
                          hit |-> ~r.exc /\ Truthy(r.ret), ret |-> r.ret,
                          fault |-> r.fault]
    /\ pc' = "output"
    /\ UNCHANGED << query, variants, vi, source, calls, catKey, googleOn,
                    unsplashOn, hour, hashSeed, seen, pool, cand, points,
                    altPoints, run,
                    container, ops, locals >>

NextGoogle == CallGoogle

SpecGoogle == InitGoogle /\ [][NextGoogle]_vars

\* the items of the answer the primary provider has given
GivenItems == stub[1].resp.items

\* item i has a link, a title and a snippet, scores above 0 for the query
\* and is accepted by the validator
ItemScore(i) ==
    calculate_image_relevance_score(query, GivenItems[i].link.v,
        Lower(GivenItems[i].title.v), Lower(GivenItems[i].snippet.v))

Survivor(i) ==
    /\ ~GivenItems[i].link.isNone
    /\ ~GivenItems[i].title.isNone
    /\ ~GivenItems[i].snippet.isNone
    /\ ItemScore(i) > 0
    /\ validate_image_url(GivenItems[i].link.v, GivenItems[i].head)

PrimaryGaveItems ==
    pc = "output" /\ last.kind = "items"

\* C17: when the primary provider has returned candidates, a URL it yields
\* is the link of an accepted candidate of score > 0, no such candidate
\* scores higher, and none of the same score comes earlier in the answer;
\* without an accepted candidate of score > 0 it yields None
C17_BestAcceptedCandidate ==
    PrimaryGaveItems =>
        /\ ~raised
        /\ Truthy(result) =>
              \E i \in 1..Len(GivenItems) :
                  /\ Survivor(i)
                  /\ GivenItems[i].link = result
                  /\ \A j \in 1..Len(GivenItems) :
                        Survivor(j) =>
                            /\ ItemScore(j) <= ItemScore(i)
                            /\ (ItemScore(j) = ItemScore(i) /\ j < i)
                                   => GivenItems[j].link = result
        /\ (~\E i \in 1..Len(GivenItems) : Survivor(i)) => result = NoneV

\* two accepted candidates of the same score on different URLs have been
\* returned, and the primary has yielded the first one
C17_Witness ==
    /\ PrimaryGaveItems
    /\ Len(GivenItems) = 2
    /\ Survivor(1) /\ Survivor(2)
    /\ ItemScore(1) = ItemScore(2)
    /\ GivenItems[1].link # GivenItems[2].link
    /\ result = GivenItems[1].link

----------------------------------------------------------------------------
(* Claims about provider errors and missing credentials (Spec) *)

\* the position of the cascade after a call that yielded nothing: the
\* secondary provider with the same variant after the primary; after the
\* secondary the primary with the next variant, or the static fallback
GoesOnAfterLastCall ==
    /\ ~raised
    /\ ~last.hit
    /\ last.ret = NoneV
    /\ IF last.p = "google"
       THEN /\ pc = "unsplash"
            /\ Len(calls) = 2 * vi - 1
       ELSE IF Len(calls) < 2 * Len(variants)
       THEN /\ pc = "google"
            /\ Len(calls) = 2 * (vi - 1)
       ELSE /\ pc \in {"default", "done"}
            /\ pc = "done" => source = "default"

\* the answers of a provider that carry no candidates
ErrorAnswer == "error"
EmptyAnswers == {"noitems", "empty"}

\* C18: after a provider call that raised a transport or API error no
\* exception has left the resolution and the cascade is where it is after
\* a call answered without candidates; the provider function returns for
\* an error what it returns for an answer without candidates
C18_ErrorIsNoCandidates ==
    /\ last.kind \in ({ErrorAnswer} \cup EmptyAnswers) => GoesOnAfterLastCall
    /\ last.kind = ErrorAnswer =>
          LET q == calls[Len(calls)].q
          IN  /\ search_google_images_enhanced(q, TRUE, [kind |-> "error", items |-> << >>])
                 = search_google_images_enhanced(q, TRUE, [kind |-> "noitems", items |-> << >>])
              /\ search_unsplash_images(q, TRUE, [kind |-> "error", regular |-> NoneV])
                 = search_unsplash_images(q, TRUE, [kind |-> "empty", regular |-> NoneV])

\* the secondary provider has raised an error for the first variant and the
\* cascade is about to call the primary provider with the second variant
C18_Witness ==
    /\ last.kind = ErrorAnswer
    /\ last.p = "unsplash"
    /\ pc = "google"
    /\ vi = 2
    /\ Len(calls) = 2
    /\ ~raised

\* the credentials of provider p are in the environment
Configured(p) == IF p = "google" THEN googleOn ELSE unsplashOn

\* C19: a provider without credentials sends no request and yields no URL
\* for any variant, a provider with credentials sends its request in every
\* call, and a resolution with a provider missing still ends with a URL of
\* the other provider or of the static catalog
C19_NoCredentialsNoRequest ==
    /\ \A i \in 1..Len(calls) :
          /\ calls[i].req = Configured(calls[i].p)
          /\ ~Configured(calls[i].p) => ~calls[i].hit
    /\ \A p \in {"google", "unsplash"} : ~Configured(p) => source # p
    /\ ~raised
    /\ pc = "done" =>
          /\ Truthy(result)
          /\ source \in { p \in {"google", "unsplash"} : Configured(p) } \cup {"default"}

\* without the credentials of the primary provider, the primary was called
\* for two variants without a request, and the secondary, sending its
\* requests, has yielded the URL for the second variant
C19_Witness ==
    /\ ~googleOn /\ unsplashOn
    /\ pc = "done"
    /\ source = "unsplash"
    /\ Len(calls) = 4
    /\ ~calls[1].req /\ ~calls[3].req
    /\ calls[2].req /\ calls[4].req
    /\ Truthy(result)

----------------------------------------------------------------------------
(* SpecDefault: get_default_security_image applied to every base query, in *)
(* every hour and under every hash seed                                    *)

InitDefault ==
    /\ query \in BaseQueries
    /\ pc = "input"
    /\ variants = << >>
    /\ vi = 0
    /\ result = NoneV
    /\ source = "none"
    /\ raised = FALSE
    /\ calls = << >>
    /\ validated = {}
    /\ catKey = ""
    /\ googleOn = FALSE
    /\ container = << >>
    /\ ops = << >>
    /\ locals = << >>
    /\ unsplashOn = FALSE
    /\ hour \in 0..MaxHour
    /\ hashSeed \in HashSeeds
    /\ seen = NoSeen
    /\ pool = << >>
    /\ cand = NoCand
    /\ points = 0
    /\ altPoints = 0
    /\ last = NoCall
    /\ stub = << >>
    /\ run = 1

\* result = get_default_security_image(query); pool and catKey are the
\* arguments it hands to rotate_image_selection
LookUp ==
    /\ pc = "input"
    /\ pool' = SelectionOf[query].images
    /\ catKey' = SelectionOf[query].key
    /\ result' = Some(get_default_security_image(query, hour, hashSeed))
    /\ source' = "default"
    /\ pc' = "output"
    /\ UNCHANGED << query, variants, vi, raised, calls, validated, googleOn,
                    unsplashOn, hour, hashSeed, seen, cand, points, altPoints,
                    last, stub, run,
                    container, ops, locals >>

NextDefault == LookUp

SpecDefault == InitDefault /\ [][NextDefault]_vars

\* positions of the catalog keys equal to, and contained in, the lowercased query
ExactKeys(q) == { i \in 1..Len(default_images) : default_images[i].term = Lower(q) }
SubstringKeys(q) == { i \in 1..Len(default_images) : Contains(Lower(q), default_images[i].term) }
FirstOf(S) == CHOOSE i \in S : \A j \in S : i <= j

\* the pool of the key equal to the lowercased query, else of the first key
\* contained in it, else the generic pool; tabulated over the base queries
PoolInLookupOrder(q) ==
    IF ExactKeys(q) # {}
    THEN default_images[FirstOf(ExactKeys(q))].images
    ELSE IF SubstringKeys(q) # {}
    THEN default_images[FirstOf(SubstringKeys(q))].images
    ELSE fallback_images

PoolInLookupOrderOf == [q \in BaseQueries |-> PoolInLookupOrder(q)]

\* C20: the fallback lookup takes the pool of the key equal to the lowercased
\* query if there is one, otherwise the pool of the first key in catalog
\* order contained in the lowercased query, otherwise the generic pool, and
\* returns a member of that pool
C20_ExactThenFirstSubstringThenGeneric ==
    pc = "output" =>
        /\ pool = PoolInLookupOrderOf[query]
        /\ ~result.isNone
        /\ InSeq(pool, result.v)

\* the query equals a catalog key while a key earlier in the catalog is
\* contained in it, and the pool of the equal key has been taken
C20_Witness ==
    /\ pc = "output"
    /\ ExactKeys(query) # {}
    /\ FirstOf(SubstringKeys(query)) < FirstOf(ExactKeys(query))
    /\ pool = default_images[FirstOf(ExactKeys(query))].images
    /\ pool # default_images[FirstOf(SubstringKeys(query))].images
    /\ InSeq(pool, result.v)

\* the places of 'security' and 'cybersecurity' in the catalog
IndexOfTerm(t) == CHOOSE i \in 1..Len(default_images) : default_images[i].term = t

\* the entry of 'cybersecurity' has been selected
CybersecuritySelected ==
    \/ catKey \in { "exact_cybersecurity", "partial_cybersecurity" }
    \/ pool = default_images[IndexOfTerm("cybersecurity")].images

\* the query contains "cybersecurity" and more
LongerCybersecurityQuery ==
    /\ Contains(Lower(query), "cybersecurity")
    /\ Lower(query) # "cybersecurity"

\* C26: the pool of 'cybersecurity' is selected only for a query that is
\* "cybersecurity" in lower case; a longer query containing it gets, by
\* substring match, the pool of 'security' or of a key before it in the
\* catalog
C26_CybersecurityOnlyByExactMatch ==
    pc = "output" =>
        /\ CybersecuritySelected =>
              Lower(query) = "cybersecurity" /\ catKey = "exact_cybersecurity"
        /\ LongerCybersecurityQuery =>
              \E i \in 1..IndexOfTerm("security") :
                  /\ catKey = "partial_" \o default_images[i].term
                  /\ pool = default_images[i].images
                  /\ InSeq(pool, result.v)

\* "cybersecurity hack" has been given an image of the pool of 'security'
C26_Witness ==
    /\ pc = "output"
    /\ query = "cybersecurity hack"
    /\ catKey = "partial_security"
    /\ pool = default_images[IndexOfTerm("security")].images
    /\ InSeq(pool, result.v)

----------------------------------------------------------------------------
(* SpecPair: get_default_security_image called for two queries by one      *)
(* process within one hour                                                 *)

PairQueries ==
    { "", "hack", "tesla", "Tesla", "tesla hack", "hack tesla", "cybersecurity",
      "cybersecurity hack", "jaguar", "jaguar logo" }

InitPair ==
    /\ query \in PairQueries
    /\ pc = "input"
    /\ variants = << >>
    /\ vi = 0
    /\ result = NoneV
    /\ source = "none"
    /\ raised = FALSE
    /\ calls = << >>
    /\ validated = {}
    /\ catKey = ""
    /\ googleOn = FALSE
    /\ container = << >>
    /\ ops = << >>
    /\ locals = << >>
    /\ unsplashOn = FALSE
    /\ hour \in 0..MaxHour
    /\ hashSeed \in HashSeeds
    /\ seen = NoSeen
    /\ pool = << >>
    /\ cand = NoCand
    /\ points = 0
    /\ altPoints = 0
    /\ last = NoCall
    /\ stub = << >>
    /\ run = 1

\* the first result is kept in seen with the catalog key and the category
\* key it was selected under; result = get_default_security_image(q)
LookUpNext(q) ==
    /\ pc = "output"
    /\ seen' = << [q |-> query, key |-> catKey, term |-> SelectionOf[query].term,
                   hour |-> hour, url |-> result.v] >>
    /\ query' = q
    /\ pool' = SelectionOf[q].images
    /\ catKey' = SelectionOf[q].key
    /\ result' = Some(get_default_security_image(q, hour, hashSeed))
    /\ pc' = "compared"
    /\ UNCHANGED << variants, vi, source, raised, calls, validated, googleOn,
                    unsplashOn, hour, hashSeed, cand, points, altPoints,
                    last, stub, run,
                    container, ops, locals >>

NextPair ==
    \/ LookUp
    \/ \E q \in PairQueries : LookUpNext(q)

SpecPair == InitPair /\ [][NextPair]_vars

\* both lookups have selected the same catalog entry
SameEntryTwice ==
    /\ pc = "compared"
    /\ seen[1].term # ""
    /\ seen[1].term = SelectionOf[query].term

\* C21 as claimed: two queries that select the same catalog entry in the
\* same hour get the same URL, whether by exact or by substring match
C21_SameEntrySameUrl ==
    SameEntryTwice => result.v = seen[1].url

\* C21: the string hashed is the category key, "exact_" or "partial_"
\* followed by the catalog key, then "_" and the hour bucket, and the index
\* is that hash modulo the pool size; two queries that select under the
\* same category key in the same hour, in one process, get the same URL
C21_SameCategoryKeySameUrl ==
    /\ pc \in {"output", "compared"} =>
          /\ catKey = (IF ExactKeys(query) # {} THEN "exact_" ELSE "partial_")
                         \o SelectionOf[query].term
               \/ (catKey = "fallback" /\ SelectionOf[query].term = "")
          /\ Len(pool) > 0
          /\ result.v = pool[(Hash(hashSeed, catKey \o "_" \o ToStr(hour)) % Len(pool)) + 1]
    /\ (pc = "compared" /\ seen[1].key = catKey) => result.v = seen[1].url

\* two different queries have selected the same entry by substring match
\* and have got the same URL
C21_Witness ==
    /\ SameEntryTwice
    /\ seen[1].key = catKey
    /\ catKey = "partial_" \o seen[1].term
    /\ seen[1].q # query
    /\ result.v = seen[1].url

----------------------------------------------------------------------------
(* The score as a sum of counted matches (SpecScore) *)

\* the positions of the query tokens, of those that are brand terms and of
\* those longer than 2 characters
TokensOf(q) == Split(Lower(q))
BrandTokens(q) ==
    { i \in 1..Len(TokensOf(q)) :
          TokensOf(q)[i] \in { brand_terms[k] : k \in 1..Len(brand_terms) } }
LongTokens(q) == { i \in 1..Len(TokensOf(q)) : Len(TokensOf(q)[i]) > 2 }

\* how many of the token positions in I have their token in text
CountIn(q, I, text) == Cardinality({ i \in I : Contains(text, TokensOf(q)[i]) })

\* the sum S for a query q and a candidate (url, title, snippet): tokens are
\* those of the lowercased query, the URL is compared in lower case, and
\* "logo" is looked for in the query as given
SumOfPoints(q, url, title, snippet) ==
    LET u == Lower(url)
    IN  (IF \E k \in 1..Len(preferred_domains) : Contains(u, preferred_domains[k])
         THEN 30 ELSE 0)
        - (IF \E k \in 1..Len(bad_domains) : Contains(u, bad_domains[k])
           THEN 20 ELSE 0)
        + 25 * Cardinality({ i \in BrandTokens(q) :
                                \/ Contains(title, TokensOf(q)[i])
                                \/ Contains(snippet, TokensOf(q)[i]) })
        + 15 * CountIn(q, BrandTokens(q), u)
        + 10 * CountIn(q, LongTokens(q), title)
        + 8 * CountIn(q, LongTokens(q), snippet)
        + 5 * CountIn(q, LongTokens(q), u)
        + (IF \E w \in {"logo", "official", "brand", "symbol", "emblem"} :
                 Contains(title, w) \/ Contains(snippet, w)
           THEN 15 ELSE 0)
        + (CASE Contains(q, "logo") /\ EndsWith(u, ".png") -> 10
             [] ~Contains(q, "logo") /\ EndsWith(u, ".jpg") -> 5
             [] OTHER -> 0)

FlooredAtZero(n) == IF n < 0 THEN 0 ELSE n

\* C22: the score is max(0, S), S being the sum of the domain bonus and
\* penalty, the brand-term points, the general token points, the logo
\* indicator bonus and the one file-type bonus
C22_ScoreIsFlooredSum ==
    pc = "output" =>
        /\ points = FlooredAtZero(SumOfPoints(cand.query, cand.url, cand.title, cand.snippet))
        /\ altPoints = FlooredAtZero(SumOfPoints(cand.query, cand.alt, cand.title, cand.snippet))

\* a candidate on an allow-listed host has been scored 165 for "jaguar logo":
\* 30 for the domain, twice 25 and 15 for the two brand terms in title and
\* URL, twice 10 and 5 for the two tokens in title and URL, 15 for the logo
\* indicator and 10 for the .png
C22_Witness ==
    /\ pc = "output"
    /\ cand.query = "jaguar logo"
    /\ cand.title = "jaguar logo"
    /\ cand.snippet = ""
    /\ OnHost(cand.alt, AllowedHosts)
    /\ EndsWith(cand.alt, "/jaguar_logo.png")
    /\ altPoints = 165

----------------------------------------------------------------------------
(* validate_image_url on its own (SpecValidate) *)

ValidateUrls ==
    { "https://upload.wikimedia.org/logo.png",
      "https://WWW.Facebook.com/logo.png",
      "https://cdn.reddit.com/a.jpg",
      "https://example.com/share/twitter.com/a.png",
      "http://example.com/photo.jpg",
      "ftp://example.com/photo.jpg",
      "" }

HeadAnswers ==
    { HeadRaise,
      HeadAnswer(200, "image/png"), HeadAnswer(200, "Image/JPEG"),
      HeadAnswer(200, "text/html"), HeadAnswer(200, ""),
      HeadAnswer(204, "image/png"), HeadAnswer(301, "image/png"),
      HeadAnswer(404, "image/png"), HeadAnswer(500, "image/gif") }

InitValidate ==
    /\ query = ""
    /\ pc = "input"
    /\ variants = << >>
    /\ vi = 0
    /\ result = NoneV
    /\ source = "none"
    /\ raised = FALSE
    /\ calls = << >>
    /\ validated = {}
    /\ catKey = ""
    /\ googleOn = FALSE
    /\ container = << >>
    /\ ops = << >>
    /\ locals = << >>
    /\ unsplashOn = FALSE
    /\ hour = 0
    /\ hashSeed = 0
    /\ seen = NoSeen
    /\ pool = << >>
    /\ \E u \in ValidateUrls, h \in HeadAnswers : cand = [url |-> u, head |-> h]
    /\ points = 0
    /\ altPoints = 0
    /\ last = NoCall
    /\ stub = << >>
    /\ run = 1

\* result = validate_image_url(url); the bare except of line 113 leaves no
\* exception to the caller
Validate ==
    /\ pc = "input"
    /\ result' = Some(validate_image_url(cand.url, cand.head))
    /\ raised' = FALSE
    /\ pc' = "output"
    /\ UNCHANGED << query, variants, vi, source, calls, validated, catKey,
                    googleOn, unsplashOn, hour, hashSeed, seen, pool, cand,
                    points, altPoints, last, stub, run, container, ops, locals,
                    container, ops, locals >>

SpecValidate == InitValidate /\ [][Validate]_vars

\* the host of a URL: what stands between "://" and the next "/"
RECURSIVE UpTo(_, _)
UpTo(s, t) ==
    IF s = "" \/ StartsWith(s, t) THEN ""
    ELSE SubSeq(s, 1, 1) \o UpTo(SubSeq(s, 2, Len(s)), t)
RECURSIVE After(_, _)
After(s, t) ==
    IF s = "" THEN ""
    ELSE IF StartsWith(s, t) THEN SubSeq(s, Len(t) + 1, Len(s))
    ELSE After(SubSeq(s, 2, Len(s)), t)
HostOf(url) == UpTo(After(Lower(url), "://"), "/")

OnBlockedDomain(url) ==
    \E k \in 1..Len(BlockedDomains) :
        \/ HostOf(url) = BlockedDomains[k]
        \/ EndsWith(HostOf(url), "." \o BlockedDomains[k])

\* the HEAD request of this URL raised instead of answering
HeadFailed == HeadOf(cand.url, cand.head).exc

\* C23: validate_image_url returns true only if the HEAD answer has a
\* success status, its content type contains "image" and the host of the URL
\* is not a block-listed domain; when the request raises, it returns false
\* and nothing reaches the caller
C23_TrueOnlyIfGoodAnswerAndFalseOnError ==
    pc = "output" =>
        /\ result \in { Some(TRUE), Some(FALSE) }
        /\ ~raised
        /\ result = Some(TRUE) =>
              /\ ~HeadFailed
              /\ cand.head.status_code \in 200..299
              /\ Contains(Lower(cand.head.content_type), "image")
              /\ ~OnBlockedDomain(cand.url)
        /\ HeadFailed => result = Some(FALSE)

\* a URL off the blocked domains with a 200 image answer has been accepted
C23_Witness ==
    /\ pc = "output"
    /\ cand.url = "https://upload.wikimedia.org/logo.png"
    /\ cand.head = HeadAnswer(200, "Image/JPEG")
    /\ result = Some(TRUE)

----------------------------------------------------------------------------
(* Termination of a resolution (SpecLive) *)

\* search_for_thumbnail_image is straight-line code around one for loop, and
\* every request carries a timeout (lines 105, 197, 341): a step that can be
\* taken is taken
Resolve == Begin \/ TryGoogle \/ TryUnsplash \/ UseDefault

SpecLive == Init /\ [][Next]_vars /\ WF_vars(Resolve)

CallsOf(p) == { i \in 1..Len(calls) : calls[i].p = p }

\* no provider has been called twice with the same variant, and neither has
\* been called more than 4 times
CallsBounded ==
    /\ \A i, j \in 1..Len(calls) :
          (i # j /\ calls[i].p = calls[j].p) => calls[i].q # calls[j].q
    /\ Cardinality(CallsOf("google")) <= 4
    /\ Cardinality(CallsOf("unsplash")) <= 4

\* C24: every resolution comes to its end, and up to there each provider is
\* called at most once per variant, so at most 4 times each
C24_TerminatesWithBoundedCalls ==
    /\ [] CallsBounded
    /\ <> (pc = "done" /\ result # NoneV)

\* a resolution has ended on the catalog after both providers failed on each
\* of 4 variants
C24_Witness ==
    /\ pc = "done"
    /\ source = "default"
    /\ Cardinality(CallsOf("google")) = 4
    /\ Cardinality(CallsOf("unsplash")) = 4

----------------------------------------------------------------------------
(* A candidate that cannot be handled (Spec) *)

\* the primary provider has just been called and handling one of its
\* candidates raised
ItemRaised == last.p = "google" /\ last.fault

\* C25: when handling a candidate of the primary answer raises, the call
\* yields nothing, whatever was scored and accepted before, no exception
\* reaches the cascade, and the secondary provider is next with the same
\* variant
C25_RaisingCandidateVoidsCall ==
    ItemRaised =>
        /\ last.ret = NoneV
        /\ ~last.hit
        /\ ~raised
        /\ result = NoneV
        /\ pc = "unsplash"
        /\ calls[Len(calls)].p = "google"
        /\ calls[Len(calls)].q = variants[vi]

\* the first call of a resolution accepted a candidate and then met one it
\* could not handle
C25_Witness ==
    /\ ItemRaised
    /\ Len(calls) = 1
    /\ validated # {}
    /\ pc = "unsplash"

----------------------------------------------------------------------------
(* SpecGenerate: one run of GenerateArticles.main over the entries of its   *)
(* feeds, against the storage container                                    *)

\* str.split(sep) for a separator of one character
RECURSIVE SplitOn(_, _, _)
SplitOn(s, sep, cur) ==
    IF s = "" THEN << cur >>
    ELSE IF SubSeq(s, 1, 1) = sep
    THEN << cur >> \o SplitOn(SubSeq(s, 2, Len(s)), sep, "")
    ELSE SplitOn(SubSeq(s, 2, Len(s)), sep, cur \o SubSeq(s, 1, 1))

\* datetime.now().strftime('%Y%m%d-%H%M') at a minute of the first hour of a day
Timestamp(minute) ==
    "20250101-00" \o (IF minute < 10 THEN "0" ELSE "") \o ToStr(minute)

\* create_filename(url) at a minute; exc: url.split('/')[2] raised IndexError
create_filename(url, minute) ==
    LET parts == SplitOn(url, "/", "")
    IN  IF Len(parts) < 3 THEN [exc |-> TRUE, name |-> ""]
        ELSE LET domain == Replace(Replace(parts[3], "www.", ""), ".", "-")
             IN  [exc |-> FALSE,
                  name |-> domain \o "-" \o Timestamp(minute) \o ".html"]

\* the links of the entries the feeds can deliver
EntryLinks ==
    { "https://krebsonsecurity.com/2025/01/a/",
      "https://www.krebsonsecurity.com/2025/01/b/",
      "https://www.bleepingcomputer.com/news/c/",
      "nolink" }

FilenameOf == [l \in EntryLinks |-> [m \in 0..MaxMinute |-> create_filename(l, m)]]

\* what the container can hold when a run starts
StartContainers ==
    { [n \in names |-> "old"] :
          names \in SUBSET { "krebsonsecurity-com-20250101-0000.html", "notes.txt" } }

\* upload_blob(html_content, overwrite=True): the blob of that name is created
\* or replaced
upload_blob(blobs, name, content) ==
    [n \in (DOMAIN blobs) \cup { name } |-> IF n = name THEN content ELSE blobs[n]]

InitGenerate ==
    /\ query = ""
    /\ pc = "start"
    /\ variants = << >>
    /\ vi = 0
    /\ result = NoneV
    /\ source = "none"
    /\ raised = FALSE
    /\ calls = << >>
    /\ validated = {}
    /\ catKey = ""
    /\ googleOn = FALSE
    /\ unsplashOn = FALSE
    /\ hour = 0
    /\ hashSeed = 0
    /\ seen = NoSeen
    /\ pool = << >>
    /\ cand = NoCand
    /\ points = 0
    /\ altPoints = 0
    /\ last = NoCall
    /\ stub = << >>
    /\ run = 1
    /\ container \in StartContainers
    /\ ops = << >>
    /\ \E es \in UNION { [1..n -> EntryLinks] : n \in 0..MaxEntries } :
          locals = [entries |-> es, existing_articles |-> {}, articles_created |-> 0,
                    minute |-> 0, start |-> DOMAIN container]

\* main up to the listing of the existing articles: it returns without the
\* OpenAI key or the storage client; a listing that raises leaves the names
\* gathered so far
GenerateStart ==
    /\ pc = "start"
    /\ \E ready \in BOOLEAN :
          IF ~ready
          THEN /\ pc' = "done"
               /\ UNCHANGED << ops, locals >>
          ELSE \E listed \in SUBSET (DOMAIN container) :
                  /\ ops' = Append(ops, [op |-> "list", name |-> "",
                                         ok |-> listed = DOMAIN container])
                  /\ locals' = [locals EXCEPT !.existing_articles = listed]
                  /\ pc' = "feeds"
    /\ UNCHANGED << query, variants, vi, result, source, raised, calls,
                    validated, catKey, googleOn, unsplashOn, hour, hashSeed,
                    seen, pool, cand, points, altPoints, last, stub, run,
                    container >>

\* one pass of the loop over feed.entries[:articles_per_feed]; outcome tells
\* how far the pass gets: too little content, no blog post, an exception on
\* the way, or the upload
GenerateEntry ==
    /\ pc = "feeds"
    /\ locals.entries # << >>
    /\ LET article_url == Head(locals.entries)
           filename == FilenameOf[article_url][locals.minute]
           rest == [locals EXCEPT !.entries = Tail(locals.entries)]
       IN  IF filename.exc \/ filename.name \in locals.existing_articles
           THEN /\ locals' = rest
                /\ UNCHANGED << container, ops >>
           ELSE \E outcome \in { "short", "noblog", "raised", "uploaded" } :
                  IF outcome = "uploaded"
                  THEN /\ container' = upload_blob(container, filename.name, article_url)
                       /\ ops' = Append(ops, [op |-> "upload", name |-> filename.name,
                                              ok |-> TRUE])
                       /\ locals' = [rest EXCEPT !.articles_created = @ + 1]
                  ELSE /\ locals' = rest
                       /\ UNCHANGED << container, ops >>
    /\ UNCHANGED << query, pc, variants, vi, result, source, raised, calls,
                    validated, catKey, googleOn, unsplashOn, hour, hashSeed,
                    seen, pool, cand, points, altPoints, last, stub, run >>

\* the clock of the run moves on by a minute
MinutePasses ==
    /\ pc = "feeds"
    /\ locals.minute < MaxMinute
    /\ locals' = [locals EXCEPT !.minute = @ + 1]
    /\ UNCHANGED << query, pc, variants, vi, result, source, raised, calls,
                    validated, catKey, googleOn, unsplashOn, hour, hashSeed,
                    seen, pool, cand, points, altPoints, last, stub, run,
                    container, ops >>

\* the loops are through: main logs articles_created and returns
GenerateDone ==
    /\ pc = "feeds"
    /\ locals.entries = << >>
    /\ pc' = "done"
    /\ UNCHANGED << query, variants, vi, result, source, raised, calls,
                    validated, catKey, googleOn, unsplashOn, hour, hashSeed,
                    seen, pool, cand, points, altPoints, last, stub, run,
                    container, ops, locals >>

NextGenerate ==
    \/ GenerateStart
    \/ GenerateEntry
    \/ MinutePasses
    \/ GenerateDone

SpecGenerate == InitGenerate /\ [][NextGenerate]_vars

Uploads == { i \in 1..Len(ops) : ops[i].op = "upload" }

\* C27: every upload of a run writes a name that was not in the container
\* when the run started and that the run has not written before, and at the
\* end articles_created is the number of blobs the run has added
C27_UploadsNeverOverwrite ==
    /\ \A i \in Uploads :
          /\ ops[i].name \notin locals.start
          /\ \A j \in Uploads : j < i => ops[j].name # ops[i].name
    /\ pc = "done" =>
          locals.articles_created = Cardinality((DOMAIN container) \ locals.start)

----------------------------------------------------------------------------
(* SpecClear: one request to ClearArticles.main                             *)

\* the names a container can hold, in the order list_blobs() gives them
BlobNames == << "a.html", "b.html", "c.HTML", "notes.txt" >>

ClearContainers ==
    { [n \in names |-> "article"] :
          names \in SUBSET { BlobNames[i] : i \in 1..Len(BlobNames) } }

\* blob.name of the listed blobs with blob.name.endswith('.html')
RECURSIVE HtmlBlobs(_, _)
HtmlBlobs(blobs, i) ==
    IF i > Len(BlobNames) THEN << >>
    ELSE (IF BlobNames[i] \in DOMAIN blobs /\ EndsWith(BlobNames[i], ".html")
          THEN << BlobNames[i] >> ELSE << >>) \o HtmlBlobs(blobs, i + 1)

\* Authorized that takes any header that is not empty
Authorized_nonempty(auth_header) == ~auth_header.isNone /\ auth_header.v # ""

\* auth_header != 'xxx' is false: req.headers.get('Code') gave the expected
\* value
Authorized(auth_header) == ~auth_header.isNone /\ auth_header.v = "xxx"

\* the HTTP responses of main; counts tells whether the body carries
\* total_found and deleted
ClearResponse(status, counts, total, deleted) ==
    [status_code |-> status, counts |-> counts, total_found |-> total,
     deleted |-> deleted]

InitClear ==
    /\ query = ""
    /\ pc = "request"
    /\ variants = << >>
    /\ vi = 0
    /\ result = NoneV
    /\ source = "none"
    /\ raised = FALSE
    /\ calls = << >>
    /\ validated = {}
    /\ catKey = ""
    /\ googleOn = FALSE
    /\ unsplashOn = FALSE
    /\ hour = 0
    /\ hashSeed = 0
    /\ seen = NoSeen
    /\ pool = << >>
    /\ cand = NoCand
    /\ points = 0
    /\ altPoints = 0
    /\ last = NoCall
    /\ stub = << >>
    /\ run = 1
    /\ container \in ClearContainers
    /\ ops = << >>
    /\ \E h \in { NoneV, Some(""), Some("xxx"), Some("XXX"), Some("xxx ") } :
          locals = [auth_header |-> h, start |-> container, blobs_to_delete |-> << >>,
                    at |-> 1, article_count |-> 0, deleted_count |-> 0]

\* the check of the Code header: 401 unless it is the expected value
ClearAuthorize ==
    /\ pc = "request"
    /\ IF Authorized(locals.auth_header)
       THEN pc' = "list" /\ UNCHANGED result
       ELSE /\ result' = Some(ClearResponse(401, FALSE, 0, 0))
            /\ pc' = "done"
    /\ UNCHANGED << query, variants, vi, source, raised, calls, validated,
                    catKey, googleOn, unsplashOn, hour, hashSeed, seen, pool,
                    cand, points, altPoints, last, stub, run, container, ops,
                    locals >>

\* the storage client and the listing: without the connection string the
\* outer handler answers 500 before any storage operation, a listing that
\* raises answers 500, otherwise the .html names are gathered and counted
ClearList ==
    /\ pc = "list"
    /\ \E outcome \in { "noclient", "raised", "listed" } :
          CASE outcome = "noclient" ->
                 /\ result' = Some(ClearResponse(500, FALSE, 0, 0))
                 /\ pc' = "done"
                 /\ UNCHANGED << ops, locals >>
            [] outcome = "raised" ->
                 /\ ops' = Append(ops, [op |-> "list", name |-> "", ok |-> FALSE])
                 /\ result' = Some(ClearResponse(500, FALSE, 0, 0))
                 /\ pc' = "done"
                 /\ UNCHANGED locals
            [] outcome = "listed" ->
                 /\ ops' = Append(ops, [op |-> "list", name |-> "", ok |-> TRUE])
                 /\ locals' = [locals EXCEPT
                                  !.blobs_to_delete = HtmlBlobs(container, 1),
                                  !.article_count = Len(HtmlBlobs(container, 1))]
                 /\ pc' = "delete"
                 /\ UNCHANGED result
    /\ UNCHANGED << query, variants, vi, source, raised, calls, validated,
                    catKey, googleOn, unsplashOn, hour, hashSeed, seen, pool,
                    cand, points, altPoints, last, stub, run, container >>

\* ClearDelete that gives up the loop at the first delete that fails
ClearDelete_stop ==
    /\ pc = "delete"
    /\ locals.at <= Len(locals.blobs_to_delete)
    /\ LET blob_name == locals.blobs_to_delete[locals.at]
       IN  \E ok \in BOOLEAN :
              /\ ops' = Append(ops, [op |-> "delete", name |-> blob_name, ok |-> ok])
              /\ IF ok
                 THEN /\ container' = [n \in (DOMAIN container) \ { blob_name } |->
                                          container[n]]
                      /\ locals' = [locals EXCEPT !.at = @ + 1,
                                                  !.deleted_count = @ + 1]
                 ELSE /\ locals' = [locals EXCEPT
                                       !.at = Len(locals.blobs_to_delete) + 1]
                      /\ UNCHANGED container
    /\ UNCHANGED << query, pc, variants, vi, result, source, raised, calls,
                    validated, catKey, googleOn, unsplashOn, hour, hashSeed,
                    seen, pool, cand, points, altPoints, last, stub, run >>

\* one pass of the loop over blobs_to_delete: delete_blob() removes the blob
\* and is counted, or raises, which is logged
ClearDelete ==
    /\ pc = "delete"
    /\ locals.at <= Len(locals.blobs_to_delete)
    /\ LET blob_name == locals.blobs_to_delete[locals.at]
       IN  \E ok \in BOOLEAN :
              /\ ops' = Append(ops, [op |-> "delete", name |-> blob_name, ok |-> ok])
              /\ IF ok
                 THEN /\ container' = [n \in (DOMAIN container) \ { blob_name } |->
                                          container[n]]
                      /\ locals' = [locals EXCEPT !.at = @ + 1,
                                                  !.deleted_count = @ + 1]
                 ELSE /\ locals' = [locals EXCEPT !.at = @ + 1]
                      /\ UNCHANGED container
    /\ UNCHANGED << query, pc, variants, vi, result, source, raised, calls,
                    validated, catKey, googleOn, unsplashOn, hour, hashSeed,
                    seen, pool, cand, points, altPoints, last, stub, run >>

\* the success response with total_found and deleted
ClearRespond ==
    /\ pc = "delete"
    /\ locals.at > Len(locals.blobs_to_delete)
    /\ result' = Some(ClearResponse(200, TRUE, locals.article_count,
                                    locals.deleted_count))
    /\ pc' = "done"
    /\ UNCHANGED << query, variants, vi, source, raised, calls, validated,
                    catKey, googleOn, unsplashOn, hour, hashSeed, seen, pool,
                    cand, points, altPoints, last, stub, run, container, ops,
                    locals >>

NextClear ==
    \/ ClearAuthorize
    \/ ClearList
    \/ ClearDelete
    \/ ClearRespond

SpecClear == InitClear /\ [][NextClear]_vars

\* C28: a request whose Code header is missing or not the expected value is
\* answered 401 and no storage operation has been performed: the container
\* is as it was
C28_UnauthorizedTouchesNothing ==
    (pc # "request" /\ (locals.auth_header.isNone \/ locals.auth_header.v # "xxx")) =>
        /\ pc = "done"
        /\ result = Some(ClearResponse(401, FALSE, 0, 0))
        /\ ops = << >>
        /\ container = locals.start

\* a request with a header of the wrong case has been turned down while the
\* container holds articles
C28_Witness ==
    /\ pc = "done"
    /\ locals.auth_header = Some("XXX")
    /\ result.v.status_code = 401
    /\ "a.html" \in DOMAIN container
    /\ ops = << >>

Deletes == { i \in 1..Len(ops) : ops[i].op = "delete" }

\* C29: in an authorized run only names ending in .html are deleted, every
\* listed .html blob is tried once whatever became of the earlier ones, and
\* the success response reports deleted <= total_found with deleted the
\* number of deletes that went through
C29_DeletesOnlyHtmlAndCountsSuccesses ==
    Authorized(locals.auth_header) =>
        /\ \A i \in Deletes : EndsWith(ops[i].name, ".html")
        /\ \A n \in (DOMAIN locals.start) \ (DOMAIN container) :
              /\ EndsWith(n, ".html")
              /\ \E i \in Deletes : ops[i].name = n /\ ops[i].ok
        /\ (pc = "done" /\ result.v.status_code = 200) =>
              /\ result.v.counts
              /\ \A n \in DOMAIN locals.start :
                    EndsWith(n, ".html") =>
                        Cardinality({ i \in Deletes : ops[i].name = n }) = 1
              /\ result.v.total_found =
                    Cardinality({ n \in DOMAIN locals.start : EndsWith(n, ".html") })
              /\ result.v.deleted = Cardinality({ i \in Deletes : ops[i].ok })
              /\ result.v.deleted <= result.v.total_found
              /\ DOMAIN container =
                    (DOMAIN locals.start) \ { ops[i].name : i \in { j \in Deletes : ops[j].ok } }

\* the delete of a.html failed, the delete of b.html went through after it,
\* and the response counts 1 of 2
C29_Witness ==
    /\ pc = "done"
    /\ result.v.status_code = 200
    /\ result.v.total_found = 2
    /\ result.v.deleted = 1
    /\ \E i, j \in Deletes :
          /\ i < j
          /\ ops[i].name = "a.html" /\ ~ops[i].ok
          /\ ops[j].name = "b.html" /\ ops[j].ok
    /\ DOMAIN container = { "a.html", "c.HTML", "notes.txt" }

----------------------------------------------------------------------------
(* SpecGet: one request to GetArticles.main                                 *)

\* blob.last_modified of a blob, as a rank in time
Stamps == { 1, 2 }

GetContainers ==
    UNION { [names -> Stamps] : names \in SUBSET { BlobNames[i] : i \in 1..Len(BlobNames) } }

\* the names list_blobs() gives, in its order
RECURSIVE ListBlobs(_, _)
ListBlobs(blobs, i) ==
    IF i > Len(BlobNames) THEN << >>
    ELSE (IF BlobNames[i] \in DOMAIN blobs THEN << BlobNames[i] >> ELSE << >>)
         \o ListBlobs(blobs, i + 1)

\* articles.sort(key=lambda x: x['publishDate'], reverse=True): newest first,
\* entries of one date in the order they were appended
RECURSIVE SortNewestFirst(_, _)
SortNewestFirst(articles, stamp) ==
    IF stamp = 0 THEN << >>
    ELSE SelectSeq(articles, LAMBDA a : a.publishDate = stamp)
         \o SortNewestFirst(articles, stamp - 1)

\* the HTTP responses of main
GetResponse(status, total, articles) ==
    [status_code |-> status, totalArticles |-> total, articles |-> articles]

InitGet ==
    /\ query = ""
    /\ pc = "request"
    /\ variants = << >>
    /\ vi = 0
    /\ result = NoneV
    /\ source = "none"
    /\ raised = FALSE
    /\ calls = << >>
    /\ validated = {}
    /\ catKey = ""
    /\ googleOn = FALSE
    /\ unsplashOn = FALSE
    /\ hour = 0
    /\ hashSeed = 0
    /\ seen = NoSeen
    /\ pool = << >>
    /\ cand = NoCand
    /\ points = 0
    /\ altPoints = 0
    /\ last = NoCall
    /\ stub = << >>
    /\ run = 1
    /\ container \in GetContainers
    /\ ops = << >>
    /\ locals = [start |-> container, listed |-> << >>, at |-> 1,
                    articles |-> << >>]

\* the storage client and the start of the listing: without the connection
\* string the outer handler answers 500
GetList ==
    /\ pc = "request"
    /\ \E client \in BOOLEAN :
          IF ~client
          THEN /\ result' = Some(GetResponse(500, 0, << >>))
               /\ pc' = "done"
               /\ UNCHANGED << ops, locals >>
          ELSE /\ ops' = Append(ops, [op |-> "list", name |-> "", ok |-> TRUE])
               /\ locals' = [locals EXCEPT !.listed = ListBlobs(container, 1)]
               /\ pc' = "blobs"
               /\ UNCHANGED result
    /\ UNCHANGED << query, variants, vi, source, raised, calls, validated,
                    catKey, googleOn, unsplashOn, hour, hashSeed, seen, pool,
                    cand, points, altPoints, last, stub, run, container >>

\* the listing raises while it is iterated: 404
GetListRaises ==
    /\ pc = "blobs"
    /\ ops' = Append(ops, [op |-> "list", name |-> "", ok |-> FALSE])
    /\ result' = Some(GetResponse(404, 0, << >>))
    /\ pc' = "done"
    /\ UNCHANGED << query, variants, vi, source, raised, calls, validated,
                    catKey, googleOn, unsplashOn, hour, hashSeed, seen, pool,
                    cand, points, altPoints, last, stub, run, container,
                    locals >>

\* one pass of the loop over the listed blobs.  For a name ending in .html:
\* "full" - the download and extract_article_metadata went through;
\* "none" - extract_article_metadata caught an exception of its own and
\* returned None; "fallback" - the download or the decoding raised and the
\* handler of main appended the basic entry
GetBlob ==
    /\ pc = "blobs"
    /\ locals.at <= Len(locals.listed)
    /\ LET name == locals.listed[locals.at]
           entry(kind) == [name |-> name, kind |-> kind, publishDate |-> container[name]]
       IN  IF ~EndsWith(name, ".html")
           THEN /\ locals' = [locals EXCEPT !.at = @ + 1]
                /\ UNCHANGED ops
           ELSE \E outcome \in { "full", "none", "fallback" } :
                  /\ ops' = Append(ops, [op |-> "download", name |-> name,
                                         ok |-> outcome # "fallback"])
                  /\ locals' = [locals EXCEPT
                                   !.at = @ + 1,
                                   !.articles = IF outcome = "none" THEN @
                                                ELSE Append(@, entry(outcome))]
    /\ UNCHANGED << query, pc, variants, vi, result, source, raised, calls,
                    validated, catKey, googleOn, unsplashOn, hour, hashSeed,
                    seen, pool, cand, points, altPoints, last, stub, run,
                    container >>

\* the listing is through: the articles are sorted, counted and returned
GetRespond ==
    /\ pc = "blobs"
    /\ locals.at > Len(locals.listed)
    /\ LET newest == CHOOSE s \in Stamps : \A t \in Stamps : t <= s
           sorted == SortNewestFirst(locals.articles, newest)
       IN  /\ locals' = [locals EXCEPT !.articles = sorted]
           /\ result' = Some(GetResponse(200, Len(sorted), sorted))
    /\ pc' = "done"
    /\ UNCHANGED << query, variants, vi, source, raised, calls, validated,
                    catKey, googleOn, unsplashOn, hour, hashSeed, seen, pool,
                    cand, points, altPoints, last, stub, run, container,
                    ops >>

NextGet ==
    \/ GetList
    \/ GetListRaises
    \/ GetBlob
    \/ GetRespond

SpecGet == InitGet /\ [][NextGet]_vars

HtmlNames == { n \in DOMAIN container : EndsWith(n, ".html") }

\* C30: when the listing went through, every blob whose name ends in .html
\* has exactly one entry in the returned articles, and metrics.totalArticles
\* is the number of those blobs
C30_OneEntryPerHtmlBlob ==
    (pc = "done" /\ result.v.status_code = 200) =>
        /\ \A n \in HtmlNames :
              Cardinality({ i \in 1..Len(result.v.articles) :
                               result.v.articles[i].name = n }) = 1
        /\ result.v.totalArticles = Cardinality(HtmlNames)

====
